---- MODULE Spec2Model ----
(***************************************************************************)
(* worth-my-time (wmt): the idempotency ledger (wmt/state.py) and the      *)
(* processing coordinator (wmt/pipeline.py, wmt/watcher.py, wmt/cli.py).   *)
(*                                                                         *)
(* The specifications, the first three sharing the ledger operators:       *)
(*   SpecLedger  one open JSON store and one open SQLite store that are    *)
(*               given the same sequence of mark_* calls;                  *)
(*   Spec        the watcher and a one-shot command running concurrently   *)
(*               against one ledger storage;                               *)
(*   SpecFile    one process at a time working on the JSON ledger file:    *)
(*               open, mutate, save step by step, crash;                   *)
(*   SpecTracker a StableFileTracker (wmt/stable.py) polled while the      *)
(*               files it watches change.                                  *)
(***************************************************************************)
EXTENDS Integers, Sequences, FiniteSets, TLC

VARIABLES
    \* ---- SpecLedger: two stores driven by the same calls
    jstore,      \* JsonStateStore._data: [records, source_snapshots]
    sstore,      \* SqliteStateStore: the rows of processed_files, by sha256
    lclock,      \* time.time() as the ledger calls read it
    lastOp,      \* the call that produced the current state
    nops,        \* calls made so far
    \* ---- Spec / SpecSeq: the coordinator
    backend,     \* cfg.state.backend: "json" or "sqlite"
    file,        \* the ledger at cfg.state.path: [records, source_snapshots]
    data,        \* per invocation: JsonStateStore._data (loaded at open)
    pc,          \* per invocation: where it is in pipeline.py
    kind,        \* per invocation: "inbox" (process_one_from_inbox) or "url" (process_url)
    force,       \* per invocation: its force argument
    cur,         \* per invocation: the candidate item being handled
    outfile,     \* per invocation: output_file chosen by triage_output_path
    cstatus,     \* per invocation: codex_status of the current item
    now,         \* time.time() as the coordinator's ledger calls read it
    outputs,     \* the output directory: the names of the output files in it
    partial,     \* the files of the output directory whose text is not all written
    published,   \* per item, the notes published for it
    nruns,       \* invocations started so far
    nfaults,     \* exceptions and kills so far
    overlapped,  \* history: two invocations have been running at the same time
    \* ---- SpecFile: the JSON ledger on disk
    fdisk,       \* the state directory: file name -> content (a sequence of tokens)
    fmem,        \* JsonStateStore._data of the open store
    fpc,         \* "closed", "open", "writing" / "rename" (inside _save), "raised"
    fbefore,     \* history: the content at the ledger path when the mutation began
    fcorrupt,    \* history: the content an open found to be invalid JSON
    fnow,        \* time.time()
    fsaves,      \* mutations begun so far
    \* ---- SpecTracker: StableFileTracker
    stable_seconds,  \* StableFileTracker._stable_seconds
    seen,        \* StableFileTracker._seen: path -> <<snapshot, last_change>>
    mono,        \* the monotonic clock
    stats,       \* what stat gives for each path: a snapshot, or missing
    lastObs,     \* <<the observe call just made: its candidates and what it returned>>,
                 \* <<>> once anything else has happened
    nobs,        \* observe calls made so far, modulo 2: tells a call from the one before
    restarted,   \* history: path -> <<snapshot, tc>> of the observe that found the
                 \* path changed, for as long as the tracker keeps that entry
    fresh,       \* history: the paths given to forget or left out of an observe:
                 \* path -> NoneN, then the time of the next observe that stats it
    \* ---- SpecPass: history of one invocation of the coordinator
    step,        \* the step just taken
    claimedNow,  \* the items the invocation has claimed
    collab,      \* <<item, collaborator>>: the collaborator that last failed for
                 \* the item the invocation claimed, <<>> if none did
    \* ---- SpecInbox: the bookmarks source, the watcher's poll and a pass over the Inbox
    bsrc,        \* the bookmarks file: [kind, items, snap]
    ipc,         \* "idle", "observe", "wait", "load", "loop"
    icaller,     \* who runs the pass: "watcher" (run_once) or "process_one"
    iforce,      \* the pass's force flag
    wloop,       \* run_forever: "running", or "dead" once an exception left it
    deadline,    \* run_once's deadline while it waits for the file to be stable
    order,       \* the bookmarks list after bookmarks.sort(key=sort_key)
    idx,         \* the position of the loop `for b in bookmarks`
    istate,      \* the ledger: url -> status
    trail,       \* history: what the pass did with order[1], order[2], ...
    loadKind,    \* history: the kind of source the pass found
    iraised,     \* history: an exception left the pass
    istate0,     \* history: the ledger when the pass began
    \* ---- SpecUrl: normalize_url and the item identity
    uurl,        \* the URL given: a sequence of characters
    unorm,       \* <<normalize_url(uurl)>>, <<>> before the call
    unorm2,      \* <<normalize_url(normalize_url(uurl))>>, <<>> before the call
    itemA,       \* <<a BookmarkItem>> for uurl, <<>> before it is made
    itemB,       \* <<another BookmarkItem>>
    idA,         \* <<identity_sha256 of itemA>>
    idB,         \* <<identity_sha256 of itemB>>
    \* ---- SpecWatch: the watch loop with its stop flag
    wstop,       \* Watcher._stop
    reported,    \* history: path -> the number of times (up to MaxReports) observe
                 \* has reported it while the tracker kept its entry as it is
    \* ---- SpecLive: the watcher's passes over an Inbox
    http,        \* per bookmark: is_probably_http_url(normalize_url(bookmark.url))
    \* ---- SpecSave: two JSON stores open on the same ledger path
    sdir,        \* the state directory: file name -> inode
    sino,        \* inode -> content (a sequence of tokens)
    spc,         \* per store: "closed", "open", "writing" / "rename" (inside _save), "raised"
    smem,        \* per store: JsonStateStore._data
    sfd,         \* per store: the inode its write_text has open, 0 if none
    soff,        \* per store: the tokens its write_text has written
    swrote,      \* history: the texts whose save was begun, and the text found at the start
    ssaves       \* mutations begun so far

ledgerVars == <<jstore, sstore, lclock, lastOp, nops>>
coordVars == <<backend, file, data, pc, kind, force, cur, outfile, cstatus,
               now, outputs, partial, published, nruns, nfaults, overlapped>>
fileVars == <<fdisk, fmem, fpc, fbefore, fcorrupt, fnow, fsaves>>
trackerVars == <<stable_seconds, seen, mono, stats, lastObs, nobs, restarted, fresh>>
passVars == <<step, claimedNow, collab>>
inboxVars == <<bsrc, ipc, icaller, iforce, wloop, deadline, order, idx, istate,
               trail, loadKind, iraised, istate0>>
urlVars == <<uurl, unorm, unorm2, itemA, itemB, idA, idB>>
watchVars == <<wstop, reported>>
liveVars == <<http>>
saveVars == <<sdir, sino, spc, smem, sfd, soff, swrote, ssaves>>
vars == <<ledgerVars, coordVars, fileVars, trackerVars, passVars, inboxVars, urlVars, watchVars, liveVars, saveVars>>

-----------------------------------------------------------------------------
(* Python's None: NoneS in a text field, NoneN in a numeric one.           *)
NoneS == "None"
NoneN == -1

(* A record none of whose keys is set yet: `rec = {}`, or a fresh row.     *)
EmptyRec ==
    [status |-> NoneS, started_at |-> NoneN, processed_at |-> NoneN,
     source_path |-> NoneS, source_mtime_ns |-> NoneN, source_size |-> NoneN,
     archive_path |-> NoneS, topic_file |-> NoneS, codex_status |-> NoneS,
     error |-> NoneS]

(* dict assignment d[k] = v *)
Put(d, k, v) == [x \in (DOMAIN d) \cup {k} |-> IF x = k THEN v ELSE d[x]]

(* {"version": 1, "records": {}, "source_snapshots": {}} *)
EmptyDoc == [records |-> <<>>, source_snapshots |-> <<>>]

(* The parts of the state a specification does not use stay as they are.  *)
FileIdle ==
    /\ fdisk = <<>>
    /\ fmem = EmptyDoc
    /\ fpc = "closed"
    /\ fbefore = <<>>
    /\ fcorrupt = <<>>
    /\ fnow = 0
    /\ fsaves = 0

PassIdle ==
    /\ step = "none"
    /\ claimedNow = {}
    /\ collab = <<>>

LiveIdle == http = <<>>

SaveIdle ==
    /\ sdir = <<>>
    /\ sino = <<>>
    /\ spc = <<>>
    /\ smem = <<>>
    /\ sfd = <<>>
    /\ soff = <<>>
    /\ swrote = {}
    /\ ssaves = 0

WatchIdle ==
    /\ wstop = FALSE
    /\ reported = <<>>

UrlIdle ==
    /\ uurl = <<>>
    /\ unorm = <<>>
    /\ unorm2 = <<>>
    /\ itemA = <<>>
    /\ itemB = <<>>
    /\ idA = <<>>
    /\ idB = <<>>

InboxIdle ==
    /\ bsrc = [kind |-> "missing", items |-> <<>>, snap |-> <<>>]
    /\ ipc = "idle"
    /\ icaller = NoneS
    /\ iforce = FALSE
    /\ wloop = "running"
    /\ deadline = 0
    /\ order = <<>>
    /\ idx = 0
    /\ istate = <<>>
    /\ trail = <<>>
    /\ loadKind = NoneS
    /\ iraised = FALSE
    /\ istate0 = <<>>

TrackerIdle ==
    /\ stable_seconds = 0
    /\ seen = <<>>
    /\ mono = 0
    /\ stats = <<>>
    /\ lastObs = <<>>
    /\ nobs = 0
    /\ restarted = <<>>
    /\ fresh = <<>>

-----------------------------------------------------------------------------
(* JsonStateStore                                                          *)

Json_get(doc, sha256) ==
    IF sha256 \in DOMAIN doc.records THEN <<doc.records[sha256]>> ELSE <<>>

(* is_processed that only looks for a record *)
Json_is_processed_AnyRecord(doc, sha256) == Json_get(doc, sha256) # <<>>

Json_is_processed(doc, sha256) ==
    LET rec == Json_get(doc, sha256)
    IN  rec # <<>> /\ rec[1].status = "processed"

(* mark_in_progress whose update forgets "error": None *)
Json_mark_in_progress_KeepsError(doc, sha256, source_path, source_mtime_ns, source_size, frc, t) ==
    IF sha256 \in DOMAIN doc.records /\ ~frc
    THEN doc
    ELSE LET rec == IF sha256 \in DOMAIN doc.records
                    THEN doc.records[sha256] ELSE EmptyRec
             upd == [rec EXCEPT !.status = "in_progress",
                                !.started_at = t,
                                !.processed_at = NoneN,
                                !.source_path = source_path,
                                !.source_mtime_ns = source_mtime_ns,
                                !.source_size = source_size]
         IN  [doc EXCEPT !.records = Put(doc.records, sha256, upd)]

Json_mark_in_progress(doc, sha256, source_path, source_mtime_ns, source_size, frc, t) ==
    IF sha256 \in DOMAIN doc.records /\ ~frc
    THEN doc
    ELSE LET rec == IF sha256 \in DOMAIN doc.records
                    THEN doc.records[sha256] ELSE EmptyRec
             upd == [rec EXCEPT !.status = "in_progress",
                                !.started_at = t,
                                !.processed_at = NoneN,
                                !.source_path = source_path,
                                !.source_mtime_ns = source_mtime_ns,
                                !.source_size = source_size,
                                !.error = NoneS]
         IN  [doc EXCEPT !.records = Put(doc.records, sha256, upd)]

(* mark_processed that keeps a stored archive_path / topic_file /          *)
(* codex_status when the argument is None.                                 *)
Json_mark_processed_Merging(doc, sha256, archive_path, topic_file, codex_status, source_path, source_mtime_ns, source_size, t) ==
    LET rec == IF sha256 \in DOMAIN doc.records
               THEN doc.records[sha256] ELSE EmptyRec
        upd == [rec EXCEPT
                  !.status = "processed",
                  !.started_at = NoneN,
                  !.processed_at = t,
                  !.source_path = IF source_path # NoneS
                                  THEN source_path ELSE rec.source_path,
                  !.source_mtime_ns = IF source_mtime_ns # NoneN
                                      THEN source_mtime_ns ELSE rec.source_mtime_ns,
                  !.source_size = IF source_size # NoneN
                                  THEN source_size ELSE rec.source_size,
                  !.archive_path = IF archive_path # NoneS
                                   THEN archive_path ELSE rec.archive_path,
                  !.topic_file = IF topic_file # NoneS
                                 THEN topic_file ELSE rec.topic_file,
                  !.codex_status = IF codex_status # NoneS
                                   THEN codex_status ELSE rec.codex_status,
                  !.error = NoneS]
        snaps == IF source_path # NoneS /\ source_mtime_ns # NoneN /\ source_size # NoneN
                 THEN Put(doc.source_snapshots, source_path,
                          [mtime_ns |-> source_mtime_ns, size |-> source_size])
                 ELSE doc.source_snapshots
    IN  [records |-> Put(doc.records, sha256, upd), source_snapshots |-> snaps]

Json_mark_processed(doc, sha256, archive_path, topic_file, codex_status, source_path, source_mtime_ns, source_size, t) ==
    LET rec == IF sha256 \in DOMAIN doc.records
               THEN doc.records[sha256] ELSE EmptyRec
        upd == [rec EXCEPT
                  !.status = "processed",
                  !.started_at = NoneN,
                  !.processed_at = t,
                  !.source_path = IF source_path # NoneS
                                  THEN source_path ELSE rec.source_path,
                  !.source_mtime_ns = IF source_mtime_ns # NoneN
                                      THEN source_mtime_ns ELSE rec.source_mtime_ns,
                  !.source_size = IF source_size # NoneN
                                  THEN source_size ELSE rec.source_size,
                  !.archive_path = archive_path,
                  !.topic_file = topic_file,
                  !.codex_status = codex_status,
                  !.error = NoneS]
        snaps == IF source_path # NoneS /\ source_mtime_ns # NoneN /\ source_size # NoneN
                 THEN Put(doc.source_snapshots, source_path,
                          [mtime_ns |-> source_mtime_ns, size |-> source_size])
                 ELSE doc.source_snapshots
    IN  [records |-> Put(doc.records, sha256, upd), source_snapshots |-> snaps]

(* mark_failed that deletes the record instead of updating it *)
Json_mark_failed_Drops(doc, sha256, err, t) == [doc EXCEPT !.records = [x \in (DOMAIN doc.records) \ {sha256} |-> doc.records[x]]]

Json_mark_failed(doc, sha256, err, t) ==
    LET rec == IF sha256 \in DOMAIN doc.records
               THEN doc.records[sha256] ELSE EmptyRec
        upd == [rec EXCEPT !.status = "failed",
                           !.started_at = NoneN,
                           !.processed_at = t,
                           !.error = err]
    IN  [doc EXCEPT !.records = Put(doc.records, sha256, upd)]

(* the lease test written >= instead of > *)
Json_allow_retry_in_progress_Geq(doc, sha256, ttl_seconds, t) ==
    LET rec == Json_get(doc, sha256)
    IN  IF rec = <<>> THEN TRUE
        ELSE IF rec[1].status = "processed" THEN FALSE
        ELSE IF rec[1].status # "in_progress" THEN TRUE
        ELSE IF rec[1].started_at = NoneN THEN TRUE
        ELSE (t - rec[1].started_at) >= ttl_seconds

Json_allow_retry_in_progress(doc, sha256, ttl_seconds, t) ==
    LET rec == Json_get(doc, sha256)
    IN  IF rec = <<>> THEN TRUE
        ELSE IF rec[1].status = "processed" THEN FALSE
        ELSE IF rec[1].status # "in_progress" THEN TRUE
        ELSE IF rec[1].started_at = NoneN THEN TRUE
        ELSE (t - rec[1].started_at) > ttl_seconds

(* is_source_processed without the shortcut for a request that lacks mtime *)
(* or size                                                                 *)
Json_is_source_processed_Strict(doc, source_path, source_mtime_ns, source_size) ==
    IF source_path \notin DOMAIN doc.source_snapshots THEN FALSE
    ELSE LET snap == doc.source_snapshots[source_path]
         IN  IF snap.mtime_ns = NoneN \/ snap.size = NoneN THEN TRUE
             ELSE snap.mtime_ns = source_mtime_ns /\ snap.size = source_size

(* is_source_processed: no snapshot for the path -> False; a value missing *)
(* on either side -> True; otherwise the two pairs are compared.           *)
Json_is_source_processed(doc, source_path, source_mtime_ns, source_size) ==
    IF source_path \notin DOMAIN doc.source_snapshots THEN FALSE
    ELSE LET snap == doc.source_snapshots[source_path]
         IN  IF snap.mtime_ns = NoneN \/ snap.size = NoneN THEN TRUE
             ELSE IF source_mtime_ns = NoneN \/ source_size = NoneN THEN TRUE
             ELSE snap.mtime_ns = source_mtime_ns /\ snap.size = source_size

Json_processed_source_snapshots(doc) ==
    [path \in DOMAIN doc.source_snapshots |->
        <<doc.source_snapshots[path].mtime_ns, doc.source_snapshots[path].size>>]

Json_stats(doc) ==
    [st \in {"processed", "failed", "in_progress"} |->
        Cardinality({id \in DOMAIN doc.records : doc.records[id].status = st})]

-----------------------------------------------------------------------------
(* SqliteStateStore: `tbl` is processed_files, a function from sha256      *)
(* (the primary key) to the row.                                           *)

Sqlite_get(tbl, sha256) ==
    IF sha256 \in DOMAIN tbl THEN <<tbl[sha256]>> ELSE <<>>

Sqlite_is_processed(tbl, sha256) ==
    LET rec == Sqlite_get(tbl, sha256)
    IN  rec # <<>> /\ rec[1].status = "processed"

(* the non-forced insert written with the forced statement's              *)
(* ON CONFLICT DO UPDATE: an existing claim's started_at is refreshed.     *)
Sqlite_mark_in_progress_AlwaysUpdates(tbl, sha256, source_path, source_mtime_ns, source_size, frc, t) ==
    IF sha256 \notin DOMAIN tbl
    THEN Put(tbl, sha256,
             [EmptyRec EXCEPT !.status = "in_progress",
                              !.started_at = t,
                              !.source_path = source_path,
                              !.source_mtime_ns = source_mtime_ns,
                              !.source_size = source_size])
    ELSE Put(tbl, sha256,
             [tbl[sha256] EXCEPT !.status = "in_progress",
                                 !.started_at = t,
                                 !.source_path = source_path,
                                 !.source_mtime_ns = source_mtime_ns,
                                 !.source_size = source_size,
                                 !.error = NoneS])

Sqlite_mark_in_progress(tbl, sha256, source_path, source_mtime_ns, source_size, frc, t) ==
    IF sha256 \notin DOMAIN tbl
    THEN Put(tbl, sha256,
             [EmptyRec EXCEPT !.status = "in_progress",
                              !.started_at = t,
                              !.source_path = source_path,
                              !.source_mtime_ns = source_mtime_ns,
                              !.source_size = source_size])
    ELSE IF frc
    THEN Put(tbl, sha256,
             [tbl[sha256] EXCEPT !.status = "in_progress",
                                 !.started_at = t,
                                 !.source_path = source_path,
                                 !.source_mtime_ns = source_mtime_ns,
                                 !.source_size = source_size,
                                 !.error = NoneS])
    ELSE tbl

Sqlite_mark_processed(tbl, sha256, archive_path, topic_file, codex_status, source_path, source_mtime_ns, source_size, t) ==
    IF sha256 \notin DOMAIN tbl
    THEN Put(tbl, sha256,
             [EmptyRec EXCEPT !.status = "processed",
                              !.processed_at = t,
                              !.source_path = source_path,
                              !.source_mtime_ns = source_mtime_ns,
                              !.source_size = source_size,
                              !.archive_path = archive_path,
                              !.topic_file = topic_file,
                              !.codex_status = codex_status])
    ELSE LET row == tbl[sha256]
         IN  Put(tbl, sha256,
                 [row EXCEPT
                    !.status = "processed",
                    !.processed_at = t,
                    !.source_path = IF source_path # NoneS
                                    THEN source_path ELSE row.source_path,
                    !.source_mtime_ns = IF source_mtime_ns # NoneN
                                        THEN source_mtime_ns ELSE row.source_mtime_ns,
                    !.source_size = IF source_size # NoneN
                                    THEN source_size ELSE row.source_size,
                    !.archive_path = archive_path,
                    !.topic_file = topic_file,
                    !.codex_status = codex_status,
                    !.error = NoneS])

Sqlite_mark_failed(tbl, sha256, err, t) ==
    IF sha256 \notin DOMAIN tbl
    THEN Put(tbl, sha256,
             [EmptyRec EXCEPT !.status = "failed", !.processed_at = t, !.error = err])
    ELSE Put(tbl, sha256,
             [tbl[sha256] EXCEPT !.status = "failed", !.processed_at = t, !.error = err])

(* the SQLite lease test written >= instead of > *)
Sqlite_allow_retry_in_progress_Geq(tbl, sha256, ttl_seconds, t) ==
    LET rec == Sqlite_get(tbl, sha256)
    IN  IF rec = <<>> THEN TRUE
        ELSE IF rec[1].status = "processed" THEN FALSE
        ELSE IF rec[1].status # "in_progress" THEN TRUE
        ELSE IF rec[1].started_at = NoneN THEN TRUE
        ELSE (t - rec[1].started_at) >= ttl_seconds

Sqlite_allow_retry_in_progress(tbl, sha256, ttl_seconds, t) ==
    LET rec == Sqlite_get(tbl, sha256)
    IN  IF rec = <<>> THEN TRUE
        ELSE IF rec[1].status = "processed" THEN FALSE
        ELSE IF rec[1].status # "in_progress" THEN TRUE
        ELSE IF rec[1].started_at = NoneN THEN TRUE
        ELSE (t - rec[1].started_at) > ttl_seconds

(* The processed rows of a source path with the greatest processed_at: the *)
(* rows `ORDER BY processed_at DESC LIMIT 1` may return, and the rows that *)
(* may come last among the latest in the unordered scan of                 *)
(* processed_source_snapshots.  SQL leaves the order of equal keys open.   *)
Sqlite_latest_processed(tbl, source_path) ==
    LET rows == {id \in DOMAIN tbl : /\ tbl[id].status = "processed"
                                     /\ tbl[id].source_path = source_path}
    IN  {id \in rows : \A other \in rows : tbl[other].processed_at <= tbl[id].processed_at}

(* is_source_processed: the set of results the query can give *)
Sqlite_is_source_processed(tbl, source_path, source_mtime_ns, source_size) ==
    IF Sqlite_latest_processed(tbl, source_path) = {} THEN {FALSE}
    ELSE {IF tbl[id].source_mtime_ns = NoneN \/ tbl[id].source_size = NoneN THEN TRUE
          ELSE IF source_mtime_ns = NoneN \/ source_size = NoneN THEN TRUE
          ELSE tbl[id].source_mtime_ns = source_mtime_ns /\ tbl[id].source_size = source_size
          : id \in Sqlite_latest_processed(tbl, source_path)}

(* processed_source_snapshots: the set of results the scan can give *)
Sqlite_processed_source_snapshots(tbl) ==
    LET paths == {tbl[id].source_path : id \in {i \in DOMAIN tbl : /\ tbl[i].status = "processed"
                                                                  /\ tbl[i].source_path # NoneS}}
        picks == {g \in [paths -> DOMAIN tbl] :
                     \A path \in paths : g[path] \in Sqlite_latest_processed(tbl, path)}
    IN  {[path \in paths |-> <<tbl[g[path]].source_mtime_ns, tbl[g[path]].source_size>>]
         : g \in picks}

(* stats without the setdefault calls *)
Sqlite_stats_NoDefaults(tbl) ==
    [st \in {tbl[id].status : id \in DOMAIN tbl} |->
        Cardinality({id \in DOMAIN tbl : tbl[id].status = st})]

(* stats: GROUP BY status, with the three known statuses defaulted to 0 *)
Sqlite_stats(tbl) ==
    [st \in {tbl[id].status : id \in DOMAIN tbl} \cup {"processed", "failed", "in_progress"} |->
        Cardinality({id \in DOMAIN tbl : tbl[id].status = st})]

-----------------------------------------------------------------------------
(* SpecLedger: one JSON store and one SQLite store, opened on empty        *)
(* storage, receive the same calls with the same clock readings.           *)

MaxOps == 3          \* calls per run
MaxLClock == 2       \* the clock runs 0..MaxLClock
MaxTtl == 2          \* ttl_seconds arguments tried: 0..MaxTtl

LIds == {1, 2}
\* (source_path, source_mtime_ns, source_size) arguments of mark_in_progress
LSourceArgs == {<<"p", NoneN, NoneN>>, <<"p", 1, 1>>, <<"q", 2, 1>>}
\* ... and of mark_processed, where source_path defaults to None
LProcessedSourceArgs == {<<NoneS, NoneN, NoneN>>, <<"p", NoneN, NoneN>>,
                         <<"p", 1, 1>>, <<"q", 2, 2>>}
\* (archive_path, topic_file, codex_status) arguments of mark_processed
LMetaArgs == {<<NoneS, NoneS, NoneS>>, <<"a1", "t1", "ok">>,
              <<"a2", "t2", "unavailable">>}
LErrors == {"e1", "e2"}
\* (source_path, source_mtime_ns, source_size) asked of is_source_processed
LPaths == {"p", "q"}
LStats == {NoneN, 1, 2}

NoOp == [op |-> "none", sha256 |-> 0, frc |-> FALSE,
         source |-> <<NoneS, NoneN, NoneN>>,
         meta |-> <<NoneS, NoneS, NoneS>>, error |-> NoneS]

CoordIdle ==
    /\ backend = "json"
    /\ file = EmptyDoc
    /\ data = <<>>
    /\ pc = <<>>
    /\ kind = <<>>
    /\ force = <<>>
    /\ cur = <<>>
    /\ outfile = <<>>
    /\ cstatus = <<>>
    /\ now = 0
    /\ outputs = {}
    /\ partial = {}
    /\ published = <<>>
    /\ nruns = 0
    /\ nfaults = 0
    /\ overlapped = FALSE

InitLedger ==
    /\ jstore = EmptyDoc
    /\ sstore = <<>>
    /\ lclock = 0
    /\ lastOp = NoOp
    /\ nops = 0
    /\ CoordIdle
    /\ FileIdle
    /\ TrackerIdle
    /\ PassIdle /\ InboxIdle /\ UrlIdle /\ WatchIdle /\ LiveIdle /\ SaveIdle

L_mark_in_progress(id, src, frc) ==
    /\ nops < MaxOps
    /\ jstore' = Json_mark_in_progress(jstore, id, src[1], src[2], src[3], frc, lclock)
    /\ sstore' = Sqlite_mark_in_progress(sstore, id, src[1], src[2], src[3], frc, lclock)
    /\ lastOp' = [NoOp EXCEPT !.op = "mark_in_progress", !.sha256 = id,
                              !.frc = frc, !.source = src]
    /\ nops' = nops + 1
    /\ UNCHANGED lclock

L_mark_processed(id, meta, src) ==
    /\ nops < MaxOps
    /\ jstore' = Json_mark_processed(jstore, id, meta[1], meta[2], meta[3],
                                     src[1], src[2], src[3], lclock)
    /\ sstore' = Sqlite_mark_processed(sstore, id, meta[1], meta[2], meta[3],
                                       src[1], src[2], src[3], lclock)
    /\ lastOp' = [NoOp EXCEPT !.op = "mark_processed", !.sha256 = id,
                              !.meta = meta, !.source = src]
    /\ nops' = nops + 1
    /\ UNCHANGED lclock

L_mark_failed(id, err) ==
    /\ nops < MaxOps
    /\ jstore' = Json_mark_failed(jstore, id, err, lclock)
    /\ sstore' = Sqlite_mark_failed(sstore, id, err, lclock)
    /\ lastOp' = [NoOp EXCEPT !.op = "mark_failed", !.sha256 = id, !.error = err]
    /\ nops' = nops + 1
    /\ UNCHANGED lclock

(* Time passes between two calls. *)
L_tick ==
    /\ lclock < MaxLClock
    /\ lclock' = lclock + 1
    /\ lastOp' = [NoOp EXCEPT !.op = "tick"]
    /\ UNCHANGED <<jstore, sstore, nops>>

NextLedger ==
    /\ \/ \E id \in LIds, src \in LSourceArgs, frc \in BOOLEAN :
              L_mark_in_progress(id, src, frc)
       \/ \E id \in LIds, meta \in LMetaArgs, src \in LProcessedSourceArgs :
              L_mark_processed(id, meta, src)
       \/ \E id \in LIds, err \in LErrors : L_mark_failed(id, err)
       \/ L_tick
    /\ UNCHANGED <<coordVars, fileVars, trackerVars, passVars, inboxVars, urlVars, liveVars, saveVars, watchVars>>

SpecLedger == InitLedger /\ [][NextLedger]_vars

-----------------------------------------------------------------------------
(* Spec: the coordinator.  "watcher" is the watch loop, whose every tick   *)
(* opens the ledger and calls process_one_from_inbox without force;        *)
(* "oneshot" is a `wmt process-one [--force]` or `wmt process-url          *)
(* [--force]` command run beside it.  Every ledger call, every external    *)
(* pipeline step and every decision is one step; a step of the pipeline    *)
(* may raise, and a process may be killed between any two steps.           *)

NItems == 2                      \* bookmarks in the inbox, in sort order
MaxNow == 1                      \* the clock runs 0..MaxNow
MaxRuns == 2                     \* invocations started in one behaviour
MaxFaults == 1                   \* exceptions and kills in one behaviour
in_progress_ttl_seconds == 0     \* cfg.processing.in_progress_ttl_seconds

Procs == {"watcher", "oneshot"}
Items == 1..NItems
bookmarks_file == "Bookmarks"    \* cfg.paths.bookmarks_file

(* a load that forgets the stored document *)
LoadDoc_Empty(f) == EmptyDoc

(* json.loads of the ledger file, as _load_or_init returns it *)
LoadDoc(f) == f

(* open_state_store: the JSON store loads the whole document into memory,  *)
(* the SQLite store connects and reads nothing.                            *)
OpenStore(f) == IF backend = "json" THEN LoadDoc(f) ELSE EmptyDoc

(* what a read through invocation p's store handle sees *)
View(p) == IF backend = "json" THEN data[p].records ELSE file.records

StateGet(p, id) == IF id \in DOMAIN View(p) THEN <<View(p)[id]>> ELSE <<>>

(* a lease check that always lets the claim through *)
AllowRetry_Always(p, id) == TRUE

(* a lease that never expires: an in_progress record is never claimed *)
AllowRetry_NeverExpires(p, id) ==
    LET rec == StateGet(p, id)
    IN  IF rec = <<>> THEN TRUE ELSE rec[1].status = "failed"

(* state.allow_retry_in_progress(id, cfg.processing.in_progress_ttl_seconds) *)
AllowRetry(p, id) ==
    IF backend = "json"
    THEN Json_allow_retry_in_progress(data[p], id, in_progress_ttl_seconds, now)
    ELSE Sqlite_allow_retry_in_progress(file.records, id, in_progress_ttl_seconds, now)

(* a state check that never skips *)
_should_skip_due_to_state_Never(p, id) == FALSE

(* a state check that skips processed items only *)
_should_skip_due_to_state_OnlyProcessed(p, id) ==
    IF force[p] THEN FALSE
    ELSE LET rec == StateGet(p, id)
         IN  IF rec = <<>> THEN FALSE
             ELSE rec[1].status = "processed"

(* a state check that does not look at force *)
_should_skip_due_to_state_IgnoresForce(p, id) ==
    LET rec == StateGet(p, id)
    IN  IF rec = <<>> THEN FALSE
        ELSE rec[1].status \in {"processed", "failed"}

(* pipeline.py 109-115 *)
_should_skip_due_to_state(p, id) ==
    IF force[p] THEN FALSE
    ELSE LET rec == StateGet(p, id)
         IN  IF rec = <<>> THEN FALSE
             ELSE rec[1].status \in {"processed", "failed"}

(* an atomic_write_text that writes to the output path itself *)
AtomicWriteTarget_InPlace(p, path) == path

(* triage_output.py 46-54: the NamedTemporaryFile beside the output path,  *)
(* a name no other writer has                                              *)
AtomicWriteTarget(p, path) == path \o "." \o p \o ".tmp"

(* triage_output_path: <slug>.md, or the first <slug>-n.md that does not   *)
(* exist; item i's slug is i.                                              *)
triage_output_path(i) ==
    LET n == CHOOSE k \in 1..(Cardinality(outputs) + 1) :
                 /\ ToString(<<i, k>>) \notin outputs
                 /\ \A j \in 1..(k - 1) : ToString(<<i, j>>) \in outputs
    IN  ToString(<<i, n>>)

InitCoord ==
    /\ backend \in {"json", "sqlite"}
    /\ file = EmptyDoc
    /\ data = [p \in Procs |-> EmptyDoc]
    /\ pc = [p \in Procs |-> "idle"]
    /\ kind = [p \in Procs |-> "inbox"]
    /\ force = [p \in Procs |-> FALSE]
    /\ cur = [p \in Procs |-> 1]
    /\ outfile = [p \in Procs |-> NoneS]
    /\ cstatus = [p \in Procs |-> NoneS]
    /\ now = 0
    /\ outputs = {}
    /\ partial = {}
    /\ published = [i \in Items |-> 0]
    /\ nruns = 0
    /\ nfaults = 0
    /\ overlapped = FALSE

LedgerIdle ==
    /\ jstore = EmptyDoc
    /\ sstore = <<>>
    /\ lclock = 0
    /\ lastOp = NoOp
    /\ nops = 0

Init == InitCoord /\ LedgerIdle /\ FileIdle /\ TrackerIdle /\ PassIdle /\ InboxIdle /\ UrlIdle /\ WatchIdle /\ LiveIdle /\ SaveIdle

(* The store object dies with the invocation: `d` while it runs on. *)
Closed(p, d) == IF pc'[p] = "idle" THEN EmptyDoc ELSE d

(* A ledger write through p's handle.  JSON: the call updates _data and    *)
(* _save() rewrites the whole file from it.  SQLite: one statement on the  *)
(* row, committed.                                                         *)
WriteLedger(p, jdoc, stbl) ==
    IF backend = "json"
    THEN /\ data' = [data EXCEPT ![p] = Closed(p, jdoc)]
         /\ file' = jdoc
    ELSE /\ file' = [file EXCEPT !.records = stbl]
         /\ UNCHANGED data

(* The same call when writing the file raises: the JSON store has already  *)
(* updated _data, the SQLite statement changes nothing.                    *)
WriteLedgerFails(p, jdoc) ==
    /\ data' = [data EXCEPT ![p] = IF backend = "json" THEN Closed(p, jdoc) ELSE @]
    /\ UNCHANGED file

StateMarkInProgress(p, id, ok) ==
    LET jdoc == Json_mark_in_progress(data[p], id, bookmarks_file, NoneN, NoneN, TRUE, now)
        stbl == Sqlite_mark_in_progress(file.records, id, bookmarks_file, NoneN, NoneN, TRUE, now)
    IN  IF ok THEN WriteLedger(p, jdoc, stbl) ELSE WriteLedgerFails(p, jdoc)

StateMarkProcessed(p, id, ok) ==
    LET jdoc == Json_mark_processed(data[p], id, NoneS, outfile[p], cstatus[p],
                                    bookmarks_file, NoneN, NoneN, now)
        stbl == Sqlite_mark_processed(file.records, id, NoneS, outfile[p], cstatus[p],
                                      bookmarks_file, NoneN, NoneN, now)
    IN  IF ok THEN WriteLedger(p, jdoc, stbl) ELSE WriteLedgerFails(p, jdoc)

StateMarkFailed(p, id, err, ok) ==
    LET jdoc == Json_mark_failed(data[p], id, err, now)
        stbl == Sqlite_mark_failed(file.records, id, err, now)
    IN  IF ok THEN WriteLedger(p, jdoc, stbl) ELSE WriteLedgerFails(p, jdoc)

(* The invocation returns (or its exception leaves it): the CLI's and the  *)
(* watcher's `finally: state.close()`.                                     *)
Finish(p) ==
    /\ pc' = [pc EXCEPT ![p] = "idle"]
    /\ cur' = [cur EXCEPT ![p] = 1]
    /\ kind' = [kind EXCEPT ![p] = "inbox"]
    /\ force' = [force EXCEPT ![p] = FALSE]
    /\ outfile' = [outfile EXCEPT ![p] = NoneS]
    /\ cstatus' = [cstatus EXCEPT ![p] = NoneS]

(* process_bookmark_item returned None: the loop of process_one_from_inbox *)
(* goes to the next bookmark; process_url returns.                         *)
NextCandidate(p) ==
    IF kind[p] = "inbox" /\ cur[p] < NItems
    THEN /\ pc' = [pc EXCEPT ![p] = "skip_check"]
         /\ cur' = [cur EXCEPT ![p] = @ + 1]
         /\ outfile' = [outfile EXCEPT ![p] = NoneS]
         /\ cstatus' = [cstatus EXCEPT ![p] = NoneS]
         /\ UNCHANGED <<kind, force>>
    ELSE Finish(p)

(* The invocation goes on to `label` with the same item. *)
Goto(p, label) ==
    /\ pc' = [pc EXCEPT ![p] = label]
    /\ UNCHANGED <<kind, force, cur, outfile, cstatus>>

(* A watcher tick reaches open_state_store (watcher.py 71), or a one-shot  *)
(* command starts (cli.py 76, 91).                                         *)
Opens(p, k, f, i) ==
    /\ pc[p] = "idle"
    /\ p = "watcher" => (k = "inbox" /\ ~f)
    /\ k = "inbox" => i = 1
    /\ overlapped' = (overlapped \/ \E q \in Procs \ {p} : pc[q] # "idle")
    /\ data' = [data EXCEPT ![p] = OpenStore(file)]
    /\ pc' = [pc EXCEPT ![p] = "skip_check"]
    /\ kind' = [kind EXCEPT ![p] = k]
    /\ force' = [force EXCEPT ![p] = f]
    /\ cur' = [cur EXCEPT ![p] = i]
    /\ UNCHANGED <<ledgerVars, fileVars, trackerVars, backend, file, outfile, cstatus, now, outputs, partial, published,
                   nfaults>>

(* The same, for the first MaxRuns invocations of a behaviour. *)
Start(p, k, f, i) ==
    /\ nruns < MaxRuns
    /\ nruns' = nruns + 1
    /\ Opens(p, k, f, i)

(* pipeline.py 132-134 / 295-297 *)
ShouldSkip(p) ==
    /\ pc[p] = "skip_check"
    /\ IF _should_skip_due_to_state(p, cur[p])
       THEN NextCandidate(p)
       ELSE Goto(p, "lease_check")
    /\ data' = [data EXCEPT ![p] = Closed(p, @)]
    /\ UNCHANGED <<ledgerVars, fileVars, trackerVars, backend, file, now, outputs, partial, published, nruns, nfaults, overlapped>>

(* pipeline.py 136-138 / 299-301 *)
LeaseCheck(p) ==
    /\ pc[p] = "lease_check"
    /\ IF ~AllowRetry(p, cur[p]) /\ ~force[p]
       THEN NextCandidate(p)
       ELSE Goto(p, "claim")
    /\ data' = [data EXCEPT ![p] = Closed(p, @)]
    /\ UNCHANGED <<ledgerVars, fileVars, trackerVars, backend, file, now, outputs, partial, published, nruns, nfaults, overlapped>>

(* pipeline.py 143-149 / 303-309 *)
Claim(p) ==
    /\ pc[p] = "claim"
    /\ Goto(p, "retrieve")
    /\ StateMarkInProgress(p, cur[p], TRUE)
    /\ UNCHANGED <<ledgerVars, fileVars, trackerVars, backend, now, outputs, partial, published, nruns, nfaults, overlapped>>


(* a retrieval that goes on to generation without usable content *)
Retrieve_GoesOn(p, usable) ==
    /\ pc[p] = "retrieve"
    /\ Goto(p, "generate")
    /\ UNCHANGED <<file, data>>
    /\ UNCHANGED <<ledgerVars, fileVars, trackerVars, backend, now, outputs, partial, published, nruns, nfaults, overlapped>>

(* pipeline.py 151-160 / 311-329: content retrieval.  With no usable       *)
(* content the item is marked failed and the call returns None.            *)
Retrieve(p, usable) ==
    /\ pc[p] = "retrieve"
    /\ IF usable
       THEN /\ Goto(p, "generate")
            /\ UNCHANGED <<file, data>>
       ELSE /\ NextCandidate(p)
            /\ StateMarkFailed(p, cur[p], "No YouTube transcript available (skipping)", TRUE)
    /\ UNCHANGED <<ledgerVars, fileVars, trackerVars, backend, now, outputs, partial, published, nruns, nfaults, overlapped>>

(* pipeline.py 161-198 / 331-369: the output path is chosen, then the      *)
(* generator runs; a CodexError only sets codex_status to "unavailable".   *)
Generate(p, cs) ==
    /\ pc[p] = "generate"
    /\ pc' = [pc EXCEPT ![p] = "write"]
    /\ outfile' = [outfile EXCEPT ![p] = triage_output_path(cur[p])]
    /\ cstatus' = [cstatus EXCEPT ![p] = cs]
    /\ UNCHANGED <<ledgerVars, fileVars, trackerVars, backend, file, data, kind, force, cur, now, outputs, partial,
                   published, nruns, nfaults, overlapped>>

(* pipeline.py 200 / 371, triage_output.py 45-55: atomic_write_text opens  *)
(* the file it writes to and starts writing the text.                      *)
WriteOutput(p) ==
    /\ pc[p] = "write"
    /\ Goto(p, "replace")
    /\ partial' = partial \cup {AtomicWriteTarget(p, outfile[p])}
    /\ outputs' = outputs \cup ({AtomicWriteTarget(p, outfile[p])} \cap {outfile[p]})
    /\ UNCHANGED <<ledgerVars, fileVars, trackerVars, backend, file, data, now, published, nruns, nfaults, overlapped>>

(* triage_output.py 55-56: the text is written out, the file closed and    *)
(* renamed to the output path.                                             *)
ReplaceOutput(p) ==
    /\ pc[p] = "replace"
    /\ Goto(p, "publish")
    /\ partial' = partial \ {AtomicWriteTarget(p, outfile[p])}
    /\ outputs' = outputs \cup {outfile[p]}
    /\ UNCHANGED <<ledgerVars, fileVars, trackerVars, backend, file, data, now, published, nruns, nfaults, overlapped>>

(* pipeline.py 201-205 / 372-376: publish_all; a result that is not ok is  *)
(* logged and the item goes on to mark_processed.                          *)
Publish(p, ok) ==
    /\ pc[p] = "publish"
    /\ Goto(p, "mark_processed")
    /\ published' = [published EXCEPT ![cur[p]] = IF ok THEN @ + 1 ELSE @]
    /\ UNCHANGED <<ledgerVars, fileVars, trackerVars, backend, file, data, now, outputs, partial, nruns, nfaults, overlapped>>

(* pipeline.py 206-220, 254-256 / 377-386: mark_processed, and the outcome *)
(* is returned: the invocation ends.                                       *)
MarkProcessed(p) ==
    /\ pc[p] = "mark_processed"
    /\ Finish(p)
    /\ StateMarkProcessed(p, cur[p], TRUE)
    /\ UNCHANGED <<ledgerVars, fileVars, trackerVars, backend, now, outputs, partial, published, nruns, nfaults, overlapped>>

(* an exception that no batch boundary catches *)
Thrown_Escapes(p) == Finish(p)

(* Where an exception goes: process_one_from_inbox catches it at the       *)
(* batch boundary (pipeline.py 257), process_url lets it through.          *)
Thrown(p) == IF kind[p] = "inbox" THEN Goto(p, "handler") ELSE Finish(p)

(* An external step (retrieval, output path / prompt / generator, output   *)
(* write, publish) raises something other than CodexError.                 *)
PipelineRaises(p) ==
    /\ nfaults < MaxFaults
    /\ nfaults' = nfaults + 1
    /\ pc[p] \in {"retrieve", "generate", "write", "replace", "publish"}
    /\ Thrown(p)
    /\ data' = [data EXCEPT ![p] = Closed(p, @)]
    /\ UNCHANGED <<ledgerVars, fileVars, trackerVars, backend, file, now, outputs, partial, published, nruns, overlapped>>

(* mark_in_progress raises while writing the ledger. *)
ClaimRaises(p) ==
    /\ nfaults < MaxFaults
    /\ nfaults' = nfaults + 1
    /\ pc[p] = "claim"
    /\ Thrown(p)
    /\ StateMarkInProgress(p, cur[p], FALSE)
    /\ UNCHANGED <<ledgerVars, fileVars, trackerVars, backend, now, outputs, partial, published, nruns, overlapped>>

(* mark_processed raises while writing the ledger. *)
MarkProcessedRaises(p) ==
    /\ nfaults < MaxFaults
    /\ nfaults' = nfaults + 1
    /\ pc[p] = "mark_processed"
    /\ Thrown(p)
    /\ StateMarkProcessed(p, cur[p], FALSE)
    /\ UNCHANGED <<ledgerVars, fileVars, trackerVars, backend, now, outputs, partial, published, nruns, overlapped>>

(* pipeline.py 257-264: the batch boundary attempts mark_failed; a failure *)
(* of that call is swallowed; the loop continues.                          *)
Handler(p, ok) ==
    /\ ok \/ nfaults < MaxFaults
    /\ nfaults' = IF ok THEN nfaults ELSE nfaults + 1
    /\ pc[p] = "handler"
    /\ NextCandidate(p)
    /\ StateMarkFailed(p, cur[p], "Unhandled exception (see logs)", ok)
    /\ UNCHANGED <<ledgerVars, fileVars, trackerVars, backend, now, outputs, partial, published, nruns, overlapped>>

(* The process is killed between two steps. *)
Crash(p) ==
    /\ nfaults < MaxFaults
    /\ nfaults' = nfaults + 1
    /\ pc[p] # "idle"
    /\ Finish(p)
    /\ data' = [data EXCEPT ![p] = EmptyDoc]
    /\ UNCHANGED <<ledgerVars, fileVars, trackerVars, backend, file, now, outputs, partial, published, nruns, overlapped>>

(* Time passes. *)
Tick ==
    /\ now < MaxNow
    /\ now' = now + 1
    /\ UNCHANGED <<ledgerVars, fileVars, trackerVars, backend, file, data, pc, kind, force, cur, outfile, cstatus,
                   outputs, partial, published, nruns, nfaults, overlapped>>

Step(p) ==
    \/ \E k \in {"inbox", "url"}, f \in BOOLEAN, i \in Items : Start(p, k, f, i)
    \/ ShouldSkip(p)
    \/ LeaseCheck(p)
    \/ Claim(p)
    \/ \E usable \in BOOLEAN : Retrieve(p, usable)
    \/ \E cs \in {"ok", "unavailable"} : Generate(p, cs)
    \/ WriteOutput(p)
    \/ ReplaceOutput(p)
    \/ \E ok \in BOOLEAN : Publish(p, ok)
    \/ MarkProcessed(p)
    \/ PipelineRaises(p)
    \/ ClaimRaises(p)
    \/ MarkProcessedRaises(p)
    \/ \E ok \in BOOLEAN : Handler(p, ok)
    \/ Crash(p)

Next ==
    /\ \/ \E p \in Procs : Step(p)
       \/ Tick
    /\ UNCHANGED <<passVars, inboxVars, urlVars, liveVars, saveVars, watchVars>>

Spec == Init /\ [][Next]_vars

-----------------------------------------------------------------------------
(* SpecPass: invocations of one command, one after the other, with the     *)
(* same steps as in Spec.  Up to MaxPassFaults steps of a behaviour raise  *)
(* or are killed, so that the mark_failed of the batch boundary can fail   *)
(* after the pipeline has.  The history variables record the step taken,   *)
(* the items the invocation claimed and the collaborator that failed.      *)

MaxPassFaults == 2
max_items_per_run == 1           \* cfg.processing.max_items_per_run

InitPass ==
    /\ backend \in {"json", "sqlite"}
    /\ file = EmptyDoc
    /\ data = [p \in Procs |-> EmptyDoc]
    /\ pc = [p \in Procs |-> "idle"]
    /\ kind = [p \in Procs |-> "inbox"]
    /\ force = [p \in Procs |-> FALSE]
    /\ cur = [p \in Procs |-> 1]
    /\ outfile = [p \in Procs |-> NoneS]
    /\ cstatus = [p \in Procs |-> NoneS]
    /\ now = 0
    /\ outputs = {}
    /\ partial = {}
    /\ published = [i \in Items |-> 0]
    /\ nruns = 0
    /\ nfaults = MaxFaults - MaxPassFaults
    /\ overlapped = FALSE
    /\ PassIdle /\ InboxIdle /\ UrlIdle /\ WatchIdle /\ LiveIdle /\ SaveIdle
    /\ LedgerIdle /\ FileIdle /\ TrackerIdle

(* the collaborator a raising pipeline step belongs to *)
CollaboratorAt(label) ==
    CASE label = "retrieve" -> "retrieval"
      [] label = "generate" -> "generation"
      [] label = "publish" -> "publish"
      [] OTHER -> NoneS

(* the history after step `name` of invocation p *)
Hist(p, name) ==
    /\ step' = name
    /\ claimedNow' = CASE name = "Start" -> {}
                       [] name = "Claim" -> claimedNow \cup {cur[p]}
                       [] OTHER -> claimedNow
    /\ collab' = CASE name \in {"Start", "Claim"} -> <<>>
                   [] name = "Retrieve_unusable" -> <<cur[p], "retrieval">>
                   [] name = "Generate_unavailable" -> <<cur[p], "generation">>
                   [] name = "Publish_failed" -> <<cur[p], "publish">>
                   [] name = "PipelineRaises" /\ CollaboratorAt(pc[p]) # NoneS -> <<cur[p], CollaboratorAt(pc[p])>>
                   [] OTHER -> collab

PassStep(p) ==
    \/ \E k \in {"inbox", "url"}, f \in BOOLEAN, i \in Items : Start(p, k, f, i) /\ Hist(p, "Start")
    \/ ShouldSkip(p) /\ Hist(p, "ShouldSkip")
    \/ LeaseCheck(p) /\ Hist(p, "LeaseCheck")
    \/ Claim(p) /\ Hist(p, "Claim")
    \/ \E usable \in BOOLEAN : Retrieve(p, usable) /\ Hist(p, IF usable THEN "Retrieve" ELSE "Retrieve_unusable")
    \/ \E cs \in {"ok", "unavailable"} : Generate(p, cs) /\ Hist(p, IF cs = "ok" THEN "Generate" ELSE "Generate_unavailable")
    \/ WriteOutput(p) /\ Hist(p, "WriteOutput")
    \/ ReplaceOutput(p) /\ Hist(p, "ReplaceOutput")
    \/ \E ok \in BOOLEAN : Publish(p, ok) /\ Hist(p, IF ok THEN "Publish" ELSE "Publish_failed")
    \/ MarkProcessed(p) /\ Hist(p, "MarkProcessed")
    \/ PipelineRaises(p) /\ Hist(p, "PipelineRaises")
    \/ ClaimRaises(p) /\ Hist(p, "ClaimRaises")
    \/ MarkProcessedRaises(p) /\ Hist(p, "MarkProcessedRaises")
    \/ \E ok \in BOOLEAN : Handler(p, ok) /\ Hist(p, IF ok THEN "Handler" ELSE "Handler_fails")
    \/ Crash(p) /\ Hist(p, "Crash")

NextPass ==
    /\ \/ PassStep("oneshot")
       \/ Tick /\ Hist("oneshot", "Tick")
    /\ UNCHANGED <<inboxVars, urlVars, liveVars, saveVars, watchVars>>

SpecPass == InitPass /\ [][NextPass]_vars

-----------------------------------------------------------------------------
(* SpecFile: the JSON ledger file.  One process at a time opens the store  *)
(* (_load_or_init), makes mutations, each of which ends in _save, and may  *)
(* be killed between any two steps; the next process opens the store       *)
(* again.  A file's content is a sequence of tokens, so that a write       *)
(* interrupted half-way leaves a prefix.                                   *)

MaxSaves == 2                    \* mutations begun in one behaviour
MaxFNow == 1                     \* the clock runs 0..MaxFNow

FIds == {1, 2}
StatePath == "state.json"        \* cfg.state.path

(* _save writing straight to the ledger path *)
TmpPath_InPlace == StatePath

(* self._path.with_suffix(self._path.suffix + ".tmp") *)
TmpPath == "state.json.tmp"

(* self._path.with_suffix(self._path.suffix + f".corrupt.{int(time.time())}") *)
BackupPath(t) == "state.json.corrupt." \o ToString(t)

Tok(kind_) ==
    [t |-> kind_, id |-> 0, rec |-> EmptyRec, path |-> NoneS, mtime_ns |-> NoneN, size |-> NoneN]

(* the ids of a dict in the order sort_keys=True writes them *)
SortedIds(S) ==
    CHOOSE sq \in [1..Cardinality(S) -> S] :
        \A i, j \in 1..Cardinality(S) : i < j => sq[i] < sq[j]

AnyOrder(S) ==
    CHOOSE sq \in [1..Cardinality(S) -> S] :
        \A i, j \in 1..Cardinality(S) : i # j => sq[i] # sq[j]

(* json.dumps(self._data, indent=2, sort_keys=True) *)
Dumps(doc) ==
    LET ids == SortedIds(DOMAIN doc.records)
        paths == AnyOrder(DOMAIN doc.source_snapshots)
    IN  <<Tok("{")>>
        \o [i \in 1..Len(ids) |-> [Tok("rec") EXCEPT !.id = ids[i], !.rec = doc.records[ids[i]]]]
        \o [i \in 1..Len(paths) |->
               [Tok("snap") EXCEPT !.path = paths[i],
                                   !.mtime_ns = doc.source_snapshots[paths[i]].mtime_ns,
                                   !.size = doc.source_snapshots[paths[i]].size]]
        \o <<Tok("}")>>

(* read_text(encoding="utf-8") raises UnicodeDecodeError on such a file *)
Undecodable(text) == \E i \in 1..Len(text) : text[i].t = "xff"

(* json.loads accepts the text as an object *)
IsJsonObject(text) ==
    /\ Len(text) >= 2
    /\ text[1].t = "{"
    /\ text[Len(text)].t = "}"
    /\ \A i \in 2..(Len(text) - 1) : text[i].t \in {"rec", "snap"}

(* json.loads accepts the text, as something that is no dict *)
IsJsonOther(text) == Len(text) = 1 /\ text[1].t = "[]"

(* json.loads raises JSONDecodeError (an empty file is turned into {}) *)
IsInvalidJson(text) ==
    ~Undecodable(text) /\ text # <<>> /\ ~IsJsonObject(text) /\ ~IsJsonOther(text)

(* json.loads of an object, with the setdefault calls of _load_or_init *)
Loads(text) ==
    LET recs == {i \in 1..Len(text) : text[i].t = "rec"}
        snaps == {i \in 1..Len(text) : text[i].t = "snap"}
    IN  [records |->
            [id \in {text[i].id : i \in recs} |->
                text[CHOOSE i \in recs : text[i].id = id].rec],
         source_snapshots |->
            [path \in {text[i].path : i \in snaps} |->
                LET k == CHOOSE i \in snaps : text[i].path = path
                IN  [mtime_ns |-> text[k].mtime_ns, size |-> text[k].size]]]

Remove(d, k) == [x \in (DOMAIN d) \ {k} |-> d[x]]

(* what the ledger path holds: <<content>>, or <<>> when it does not exist *)
PathContent(d) == IF StatePath \in DOMAIN d THEN <<d[StatePath]>> ELSE <<>>

(* a ledger written by an earlier run *)
SomeDoc == Json_mark_failed(EmptyDoc, 1, "e1", 0)

(* what the ledger path may hold before the first open: a complete        *)
(* document, an empty file, a truncated document, bytes that are not       *)
(* UTF-8, JSON that is no object                                           *)
InitialContents ==
    {Dumps(SomeDoc), <<>>, <<Tok("{"), Dumps(SomeDoc)[2]>>, <<Tok("xff")>>, <<Tok("[]")>>}

InitFile ==
    /\ fdisk \in {<<>>} \cup {[n \in {StatePath} |-> c] : c \in InitialContents}
    /\ fmem = EmptyDoc
    /\ fpc = "closed"
    /\ fbefore = <<>>
    /\ fcorrupt = <<>>
    /\ fnow = 0
    /\ fsaves = 0
    /\ LedgerIdle /\ CoordIdle /\ TrackerIdle /\ PassIdle /\ InboxIdle /\ UrlIdle /\ WatchIdle /\ LiveIdle /\ SaveIdle

(* JsonStateStore.__init__ -> _load_or_init.  `moved` tells whether the    *)
(* rename of a corrupt file to its backup name succeeds (an OSError is     *)
(* swallowed).                                                             *)
F_open(moved) ==
    /\ fpc = "closed"
    /\ IF StatePath \notin DOMAIN fdisk
       THEN fmem' = EmptyDoc /\ fpc' = "open" /\ UNCHANGED <<fdisk, fcorrupt>>
       ELSE LET raw == fdisk[StatePath]
            IN  IF Undecodable(raw)
                THEN fpc' = "raised" /\ fcorrupt' = <<raw>> /\ UNCHANGED <<fdisk, fmem>>
                ELSE IF IsInvalidJson(raw)
                THEN /\ fdisk' = IF moved
                                 THEN Put(Remove(fdisk, StatePath), BackupPath(fnow), raw)
                                 ELSE fdisk
                     /\ fmem' = EmptyDoc
                     /\ fpc' = "open"
                     /\ fcorrupt' = <<raw>>
                ELSE /\ fmem' = IF IsJsonObject(raw) THEN Loads(raw) ELSE EmptyDoc
                     /\ fpc' = "open"
                     /\ UNCHANGED <<fdisk, fcorrupt>>
    /\ UNCHANGED <<fbefore, fnow, fsaves, ledgerVars, coordVars, trackerVars, passVars, inboxVars, urlVars, liveVars, saveVars, watchVars>>

(* A mutation updates _data and enters _save: tmp.write_text opens the     *)
(* temp file, truncating it.                                               *)
F_mutate(doc) ==
    /\ fpc = "open"
    /\ fsaves < MaxSaves
    /\ fsaves' = fsaves + 1
    /\ fmem' = doc
    /\ fbefore' = PathContent(fdisk)
    /\ fdisk' = Put(fdisk, TmpPath, <<>>)
    /\ fpc' = "writing"
    /\ UNCHANGED <<fcorrupt, fnow, ledgerVars, coordVars, trackerVars, passVars, inboxVars, urlVars, liveVars, saveVars, watchVars>>

F_mark_in_progress(id) ==
    F_mutate(Json_mark_in_progress(fmem, id, bookmarks_file, NoneN, NoneN, TRUE, fnow))

F_mark_processed(id) ==
    F_mutate(Json_mark_processed(fmem, id, NoneS, "t1", "ok", bookmarks_file, NoneN, NoneN, fnow))

F_mark_failed(id) ==
    F_mutate(Json_mark_failed(fmem, id, "e1", fnow))

(* write_text puts the next part of the text into the temp file *)
F_write ==
    /\ fpc = "writing"
    /\ LET text == Dumps(fmem)
           n == Len(fdisk[TmpPath]) + 1
       IN  /\ fdisk' = Put(fdisk, TmpPath, Append(fdisk[TmpPath], text[n]))
           /\ fpc' = IF n = Len(text) THEN "rename" ELSE "writing"
    /\ UNCHANGED <<fmem, fbefore, fcorrupt, fnow, fsaves, ledgerVars, coordVars, trackerVars, passVars, inboxVars, urlVars, liveVars, saveVars, watchVars>>

(* tmp.replace(self._path) *)
F_rename ==
    /\ fpc = "rename"
    /\ fdisk' = Remove(Put(fdisk, StatePath, fdisk[TmpPath]), TmpPath)
    /\ fpc' = "open"
    /\ UNCHANGED <<fmem, fbefore, fcorrupt, fnow, fsaves, ledgerVars, coordVars, trackerVars, passVars, inboxVars, urlVars, liveVars, saveVars, watchVars>>

(* The process ends, or is killed between two steps: the store is gone,    *)
(* the files stay.                                                         *)
F_exit ==
    /\ fpc \in {"open", "writing", "rename"}
    /\ fpc' = "closed"
    /\ fmem' = EmptyDoc
    /\ UNCHANGED <<fdisk, fbefore, fcorrupt, fnow, fsaves, ledgerVars, coordVars, trackerVars, passVars, inboxVars, urlVars, liveVars, saveVars, watchVars>>

F_tick ==
    /\ fnow < MaxFNow
    /\ fnow' = fnow + 1
    /\ UNCHANGED <<fdisk, fmem, fpc, fbefore, fcorrupt, fsaves, ledgerVars, coordVars, trackerVars, passVars, inboxVars, urlVars, liveVars, saveVars, watchVars>>

NextFile ==
    \/ \E moved \in BOOLEAN : F_open(moved)
    \/ \E id \in FIds : F_mark_in_progress(id)
    \/ \E id \in FIds : F_mark_processed(id)
    \/ \E id \in FIds : F_mark_failed(id)
    \/ F_write
    \/ F_rename
    \/ F_exit
    \/ F_tick

SpecFile == InitFile /\ [][NextFile]_vars

-----------------------------------------------------------------------------
(* SpecSave: two invocations (the watcher's run_once and a command run     *)
(* beside it) each with a JsonStateStore open on the same ledger path.     *)
(* Both name the same temp path in _save.  write_text opens the path with  *)
(* O_CREAT | O_TRUNC and writes through its own descriptor and offset; a   *)
(* rename moves the directory entry and leaves open descriptors on the     *)
(* inode.  The text goes out in tokens, one write each.                    *)

MaxSaveOps == 3                  \* mutations begun in one behaviour
SaveIds == {1, 2}

(* the bytes of a hole left by a write beyond the end of the file *)
Nul == Tok("nul")

(* a _save that writes a temp file of the store's own *)
SaveTmp_Own(w) == "state.json." \o w \o ".tmp"

(* state.py 157: the temp path does not depend on the store *)
SaveTmp(w) == TmpPath

(* the first inode number not in use *)
FreshInode == CHOOSE n \in 1..(Cardinality(DOMAIN sino) + 1) : n \notin DOMAIN sino

(* the inodes that have a name, or a descriptor open, in dir_ and fd_ *)
LiveInodes(dir_, fd_) == {dir_[n] : n \in DOMAIN dir_} \cup {fd_[w] : w \in DOMAIN fd_}

(* the inode table once the inodes nothing refers to are freed *)
Reclaim(ino_, dir_, fd_) == [i \in (DOMAIN ino_) \cap LiveInodes(dir_, fd_) |-> ino_[i]]

(* pwrite of one token at position n (from 1): a position beyond the end   *)
(* leaves a hole before it                                                 *)
WriteAt(text, n, tok) ==
    [i \in 1..(IF n > Len(text) THEN n ELSE Len(text)) |->
        IF i = n THEN tok ELSE IF i <= Len(text) THEN text[i] ELSE Nul]

(* what the ledger path holds: <<content>>, or <<>> when it does not exist *)
LedgerText == IF StatePath \in DOMAIN sdir THEN <<sino[sdir[StatePath]]>> ELSE <<>>

InitSave ==
    /\ \/ sdir = <<>> /\ sino = <<>>
       \/ sdir = [n \in {StatePath} |-> 1] /\ sino = [i \in {1} |-> Dumps(SomeDoc)]
    /\ spc = [w \in Procs |-> "closed"]
    /\ smem = [w \in Procs |-> EmptyDoc]
    /\ sfd = [w \in Procs |-> 0]
    /\ soff = [w \in Procs |-> 0]
    /\ swrote = {sino[i] : i \in DOMAIN sino}
    /\ ssaves = 0
    /\ LedgerIdle /\ CoordIdle /\ FileIdle /\ TrackerIdle /\ PassIdle /\ InboxIdle /\ UrlIdle /\ WatchIdle /\ LiveIdle

(* open_state_store -> JsonStateStore.__init__ -> _load_or_init.  `moved`  *)
(* tells whether the rename of a corrupt file to its backup name succeeds. *)
S_open(w, moved) ==
    /\ spc[w] = "closed"
    /\ spc' = [spc EXCEPT ![w] = "open"]
    /\ IF LedgerText = <<>>
       THEN smem' = [smem EXCEPT ![w] = EmptyDoc] /\ UNCHANGED <<sdir, sino>>
       ELSE LET raw == LedgerText[1]
            IN  IF IsInvalidJson(raw)
                THEN /\ smem' = [smem EXCEPT ![w] = EmptyDoc]
                     /\ sdir' = IF moved
                                THEN Put(Remove(sdir, StatePath), BackupPath(0), sdir[StatePath])
                                ELSE sdir
                     /\ sino' = Reclaim(sino, sdir', sfd)
                ELSE /\ smem' = [smem EXCEPT ![w] = IF IsJsonObject(raw) THEN Loads(raw) ELSE EmptyDoc]
                     /\ UNCHANGED <<sdir, sino>>
    /\ UNCHANGED <<sfd, soff, swrote, ssaves>>

(* A mutation updates _data and enters _save: tmp.write_text opens the     *)
(* temp path, creating the file or truncating the one that is there.       *)
S_mutate(w, doc) ==
    /\ spc[w] = "open"
    /\ ssaves < MaxSaveOps
    /\ ssaves' = ssaves + 1
    /\ smem' = [smem EXCEPT ![w] = doc]
    /\ swrote' = swrote \cup {Dumps(doc)}
    /\ LET i == IF SaveTmp(w) \in DOMAIN sdir THEN sdir[SaveTmp(w)] ELSE FreshInode
       IN  /\ sdir' = Put(sdir, SaveTmp(w), i)
           /\ sino' = Put(sino, i, <<>>)
           /\ sfd' = [sfd EXCEPT ![w] = i]
    /\ soff' = [soff EXCEPT ![w] = 0]
    /\ spc' = [spc EXCEPT ![w] = "writing"]

S_mark_in_progress(w, id) ==
    S_mutate(w, Json_mark_in_progress(smem[w], id, bookmarks_file, NoneN, NoneN, TRUE, 0))

S_mark_processed(w, id) ==
    S_mutate(w, Json_mark_processed(smem[w], id, NoneS, "t1", "ok", bookmarks_file, NoneN, NoneN, 0))

S_mark_failed(w, id) ==
    S_mutate(w, Json_mark_failed(smem[w], id, "e1", 0))

(* write_text writes the next part of the text at its offset; after the    *)
(* last part it closes the file                                            *)
S_write(w) ==
    /\ spc[w] = "writing"
    /\ LET text == Dumps(smem[w])
           n == soff[w] + 1
           last == n = Len(text)
       IN  /\ soff' = [soff EXCEPT ![w] = IF last THEN 0 ELSE n]
           /\ sfd' = [sfd EXCEPT ![w] = IF last THEN 0 ELSE @]
           /\ spc' = [spc EXCEPT ![w] = IF last THEN "rename" ELSE "writing"]
           /\ sino' = Reclaim([sino EXCEPT ![sfd[w]] = WriteAt(@, n, text[n])], sdir, sfd')
    /\ UNCHANGED <<sdir, smem, swrote, ssaves>>

(* tmp.replace(self._path): FileNotFoundError when the temp path has no    *)
(* file; the exception leaves the mutation                                 *)
S_rename(w) ==
    /\ spc[w] = "rename"
    /\ IF SaveTmp(w) \in DOMAIN sdir
       THEN /\ sdir' = Remove(Put(sdir, StatePath, sdir[SaveTmp(w)]), SaveTmp(w))
            /\ sino' = Reclaim(sino, sdir', sfd)
            /\ spc' = [spc EXCEPT ![w] = "open"]
       ELSE /\ spc' = [spc EXCEPT ![w] = "raised"]
            /\ UNCHANGED <<sdir, sino>>
    /\ UNCHANGED <<smem, sfd, soff, swrote, ssaves>>

(* The invocation ends: it returns, or the exception of a mutation leaves  *)
(* it (`finally: state.close()`).                                          *)
S_exit(w) ==
    /\ spc[w] \in {"open", "raised"}
    /\ spc' = [spc EXCEPT ![w] = "closed"]
    /\ smem' = [smem EXCEPT ![w] = EmptyDoc]
    /\ UNCHANGED <<sdir, sino, sfd, soff, swrote, ssaves>>

NextSave ==
    /\ \E w \in Procs :
          \/ \E moved \in BOOLEAN : S_open(w, moved)
          \/ \E id \in SaveIds : S_mark_in_progress(w, id)
          \/ \E id \in SaveIds : S_mark_processed(w, id)
          \/ \E id \in SaveIds : S_mark_failed(w, id)
          \/ S_write(w)
          \/ S_rename(w)
          \/ S_exit(w)
    /\ UNCHANGED <<ledgerVars, coordVars, fileVars, trackerVars, passVars, inboxVars, urlVars, watchVars, liveVars>>

SpecSave == InitSave /\ [][NextSave]_vars

-----------------------------------------------------------------------------
(* SpecTracker: one StableFileTracker, polled with candidate lists while   *)
(* the files are written, removed and time passes.  The clock is in whole  *)
(* units; `now - last_change >= stable_seconds` compares the same way for  *)
(* floats, float subtraction being monotone.  A candidate list names a     *)
(* path once: the tracker is given a set of polled paths.                  *)

MaxWindow == 2
MaxMono == 3

Windows == (0 - 1) .. MaxWindow
TPaths == {"a", "b"}

(* StatSnapshot(size, mtime_ns) *)
StatSnapshot(size, mtime_ns) == [size |-> size, mtime_ns |-> mtime_ns]
Snapshots == {StatSnapshot(1, 1), StatSnapshot(2, 2)}

CandidateLists == {c \in UNION {[1..n -> TPaths] : n \in 0..Cardinality(TPaths)} : \A i, j \in DOMAIN c : c[i] = c[j] => i = j}

Range(s) == {s[i] : i \in DOMAIN s}

(* the window test written > instead of >= *)
Quiet_Strict(now_, last_change, W) == (now_ - last_change) > W

(* (now - last_change) >= self._stable_seconds *)
Quiet(now_, last_change, W) == (now_ - last_change) >= W

(* a changed snapshot stored with the old timestamp *)
ChangedEntry_KeepsTimer(snap, now_, prior) == <<snap, prior[2]>>

(* self._seen[path] = (snap, now) for a snapshot that differs from the     *)
(* stored one                                                              *)
ChangedEntry(snap, now_, prior) == <<snap, now_>>

(* a missing file that makes the tracker forget the path *)
ObserveMissing_Forgets(acc, path) == [acc EXCEPT !.seen = Remove(@, path)]

(* except FileNotFoundError: continue *)
ObserveMissing(acc, path) == acc

(* an observe that drops nothing *)
DropOthers_KeepsAll(sn, candidates) == sn

(* for path in list(self._seen.keys()): if path not in current_set: pop *)
DropOthers(sn, candidates) == [p \in DOMAIN sn \cap Range(candidates) |-> sn[p]]

(* an iteration whose report starts the window again *)
ObserveOne_ReportRestarts(acc, path, now_, W, st) ==
    IF path \notin DOMAIN st THEN ObserveMissing(acc, path)
    ELSE IF path \notin DOMAIN acc.seen
         THEN [acc EXCEPT !.seen = Put(@, path, <<st[path], now_>>), !.stable = IF W <= 0 THEN Append(@, path) ELSE @]
         ELSE IF st[path] # acc.seen[path][1]
              THEN [acc EXCEPT !.seen = Put(@, path, ChangedEntry(st[path], now_, acc.seen[path]))]
              ELSE IF Quiet(now_, acc.seen[path][2], W)
                   THEN [acc EXCEPT !.seen = Put(@, path, <<st[path], now_>>), !.stable = Append(@, path)]
                   ELSE acc

(* one iteration of `for path in candidates`; st is what stat gives *)
ObserveOne(acc, path, now_, W, st) ==
    IF path \notin DOMAIN st THEN ObserveMissing(acc, path)
    ELSE LET snap == st[path] IN
         IF path \notin DOMAIN acc.seen
         THEN [acc EXCEPT !.seen = Put(@, path, <<snap, now_>>),
                          !.stable = IF W <= 0 THEN Append(@, path) ELSE @]
         ELSE LET prior == acc.seen[path] IN
              IF snap # prior[1]
              THEN [acc EXCEPT !.seen = Put(@, path, ChangedEntry(snap, now_, prior))]
              ELSE IF Quiet(now_, prior[2], W)
                   THEN [acc EXCEPT !.stable = Append(@, path)]
                   ELSE acc

RECURSIVE ObserveLoop(_, _, _, _, _, _)
ObserveLoop(acc, candidates, i, now_, W, st) ==
    IF i > Len(candidates) THEN acc
    ELSE ObserveLoop(ObserveOne(acc, candidates[i], now_, W, st), candidates, i + 1, now_, W, st)

(* observe: the new _seen, the returned list, and whether it raised *)
Observe(sn, candidates, now_, W, st) == ObserveLoop([seen |-> DropOthers(sn, candidates), stable |-> <<>>, raised |-> FALSE], candidates, 1, now_, W, st)

(* the paths whose stored snapshot an observe finds changed *)
FoundChanged(sn, candidates, st) == {p \in Range(candidates) \cap DOMAIN st \cap DOMAIN sn : st[p] # sn[p][1]}

InitTracker ==
    /\ stable_seconds \in Windows
    /\ seen = <<>>
    /\ mono = 0
    /\ stats = <<>>
    /\ lastObs = <<>>
    /\ nobs = 0
    /\ restarted = <<>>
    /\ fresh = <<>>
    /\ LedgerIdle /\ CoordIdle /\ FileIdle /\ PassIdle /\ InboxIdle /\ UrlIdle /\ WatchIdle /\ LiveIdle /\ SaveIdle

T_observe(candidates) ==
    /\ LET r == Observe(seen, candidates, mono, stable_seconds, stats)
           ch == FoundChanged(seen, candidates, stats)
       IN /\ seen' = r.seen
          /\ lastObs' = <<[candidates |-> candidates, stable |-> r.stable, raised |-> r.raised]>>
          /\ restarted' = [p \in (DOMAIN restarted \cap DOMAIN r.seen) \cup ch |->
                              IF p \in ch THEN <<stats[p], mono>> ELSE restarted[p]]
          /\ fresh' = [p \in DOMAIN fresh \cup (TPaths \ Range(candidates)) |->
                          IF p \notin Range(candidates) THEN NoneN
                          ELSE IF fresh[p] = NoneN /\ p \in DOMAIN stats THEN mono
                          ELSE fresh[p]]
    /\ nobs' = 1 - nobs
    /\ UNCHANGED <<stable_seconds, mono, stats>>

(* forget: self._seen.pop(path, None) *)
T_forget(path) ==
    /\ seen' = Remove(seen, path)
    /\ restarted' = Remove(restarted, path)
    /\ fresh' = Put(fresh, path, NoneN)
    /\ lastObs' = <<>>
    /\ UNCHANGED <<stable_seconds, mono, stats, nobs>>

(* another program writes the file *)
T_write(path, snap) ==
    /\ IF path \in DOMAIN stats THEN stats[path] # snap ELSE TRUE
    /\ stats' = Put(stats, path, snap)
    /\ lastObs' = <<>>
    /\ UNCHANGED <<stable_seconds, seen, mono, nobs, restarted, fresh>>

(* another program removes the file *)
T_unlink(path) ==
    /\ path \in DOMAIN stats
    /\ stats' = Remove(stats, path)
    /\ lastObs' = <<>>
    /\ UNCHANGED <<stable_seconds, seen, mono, nobs, restarted, fresh>>

T_tick ==
    /\ mono < MaxMono
    /\ mono' = mono + 1
    /\ lastObs' = <<>>
    /\ UNCHANGED <<stable_seconds, seen, stats, nobs, restarted, fresh>>

NextTracker ==
    /\ \/ \E c \in CandidateLists : T_observe(c)
       \/ \E p \in TPaths : T_forget(p)
       \/ \E p \in TPaths, s \in Snapshots : T_write(p, s)
       \/ \E p \in TPaths : T_unlink(p)
       \/ T_tick
    /\ UNCHANGED <<ledgerVars, coordVars, fileVars, passVars, inboxVars, urlVars, liveVars, saveVars, watchVars>>

SpecTracker == InitTracker /\ [][NextTracker]_vars

-----------------------------------------------------------------------------
(* SpecInbox: the bookmarks source, the watcher's poll (watcher.py 27-81)  *)
(* and one pass over the Inbox (pipeline.py 223-267).  Time is counted in  *)
(* units of 1/UnitsPerSec second; a bookmark's date_added is a count of    *)
(* such units since 1601-01-01, as Chromium counts microseconds.  What     *)
(* process_bookmark_item does with one candidate is the subject of Spec    *)
(* and SpecPass; here it is its result for the loop: skipped, failed,      *)
(* raised, or an outcome.                                                  *)

MaxDate == 5
UnitsPerSec == 2
EpochDelta == 4
MaxInbox == 2
MaxPollMono == 2

Urls == {"https://example.com/a", "https://example.com/b"}

(* Python's order of the strings in Urls *)
UrlRank(u) == IF u = "https://example.com/a" THEN 1 ELSE 2

(* date_added of a bookmark node: absent (NoneN), or a number *)
RawDates == {NoneN, 0, 1, MaxDate - 1, MaxDate}

Nodes == [url : Urls, date_added : RawDates]

(* the url nodes of the Inbox folder in file order, each url once: the     *)
(* keys of two nodes with different urls differ, so the file order does    *)
(* not show in the sorted list and one order per set of nodes is enough    *)
InboxContents == {c \in UNION {[1..n -> Nodes] : n \in 0..MaxInbox} : \A i, j \in DOMAIN c : i < j => UrlRank(c[i].url) < UrlRank(c[j].url)}

SourceKinds == {"missing", "unreadable", "undecodable", "invalid_json", "not_object", "no_roots", "ok"}

Missing == [kind |-> "missing", items |-> <<>>, snap |-> <<>>]

(* the states of the bookmarks file: missing, there with a content that    *)
(* cannot be loaded, or a bookmarks document                               *)
Sources ==
    {Missing}
    \cup {[kind |-> k, items |-> <<>>, snap |-> <<sn>>] : k \in SourceKinds \ {"missing", "ok"}, sn \in Snapshots}
    \cup {[kind |-> "ok", items |-> c, snap |-> <<sn>>] : c \in InboxContents, sn \in Snapshots}

(* bookmarks.py 21-38: the datetime, as units since 1601, or None *)
chromium_date_added_to_datetime(value) ==
    IF value = NoneN THEN NoneN
    ELSE IF value <= 0 THEN NoneN
    ELSE value

(* bookmarks.py 108-131 *)
list_folder_bookmarks(nodes) == [i \in DOMAIN nodes |-> [url |-> nodes[i].url, date_added |-> chromium_date_added_to_datetime(nodes[i].date_added)]]

(* bookmarks.py 71-82: read_text turns only FileNotFoundError into         *)
(* BookmarksError; PermissionError, IsADirectoryError and                  *)
(* UnicodeDecodeError leave the function as they are                       *)
load_bookmarks_file(s) ==
    CASE s.kind = "missing" -> "BookmarksError"
      [] s.kind \in {"unreadable", "undecodable"} -> "Exception"
      [] s.kind \in {"invalid_json", "not_object"} -> "BookmarksError"
      [] OTHER -> "data"

(* bookmarks.py 134-158 *)
load_brave_inbox_bookmarks(s) ==
    LET r == load_bookmarks_file(s)
    IN  IF r # "data" THEN [raises |-> r, items |-> <<>>]
        ELSE IF s.kind = "no_roots" THEN [raises |-> "BookmarksError", items |-> <<>>]
        ELSE [raises |-> NoneS, items |-> list_folder_bookmarks(s.items)]

(* int(x) of a float of units/UnitsPerSec seconds: truncation toward zero *)
IntOfSeconds(units) ==
    IF units >= 0 THEN units \div UnitsPerSec
    ELSE 0 - ((0 - units) \div UnitsPerSec)

(* pipeline.py 239-241 *)
sort_key(b) ==
    LET dt == IF b.date_added = NoneN THEN EpochDelta ELSE b.date_added
    IN  <<IntOfSeconds(dt - EpochDelta), b.url>>

(* the order of two (int, str) tuples *)
KeyLeq(k1, k2) == k1[1] < k2[1] \/ (k1[1] = k2[1] /\ UrlRank(k1[2]) <= UrlRank(k2[2]))

(* list.sort is stable: b goes after every element whose key is not greater *)
RECURSIVE InsertByKey(_, _)
InsertByKey(s, b) ==
    IF s = <<>> THEN <<b>>
    ELSE IF KeyLeq(sort_key(s[Len(s)]), sort_key(b)) THEN Append(s, b)
    ELSE Append(InsertByKey(SubSeq(s, 1, Len(s) - 1), b), s[Len(s)])

RECURSIVE SortByKey(_)
SortByKey(s) == IF s = <<>> THEN <<>> ELSE InsertByKey(SortByKey(SubSeq(s, 1, Len(s) - 1)), s[Len(s)])

(* what stat gives for the bookmarks file *)
SrcStats == IF bsrc.kind = "missing" THEN <<>> ELSE [p \in {bookmarks_file} |-> bsrc.snap[1]]

(* state.get(item_id).status *)
StatusOf(st, u) == IF u \in DOMAIN st THEN st[u] ELSE NoneS

InboxWindows == 0 .. 1

InitInbox ==
    /\ bsrc \in Sources
    /\ ipc = "idle"
    /\ icaller = NoneS
    /\ iforce = FALSE
    /\ wloop = "running"
    /\ deadline = 0
    /\ order = <<>>
    /\ idx = 0
    /\ istate = <<>>
    /\ trail = <<>>
    /\ loadKind = NoneS
    /\ iraised = FALSE
    /\ istate0 = <<>>
    /\ stable_seconds \in InboxWindows
    /\ seen = <<>>
    /\ mono = 0
    /\ stats = <<>>
    /\ lastObs = <<>>
    /\ nobs = 0
    /\ restarted = <<>>
    /\ fresh = <<>>
    /\ LedgerIdle /\ CoordIdle /\ FileIdle /\ PassIdle /\ UrlIdle /\ WatchIdle /\ LiveIdle /\ SaveIdle

(* the history of a finished pass is dropped by the next step *)
ForgetPass ==
    /\ order' = <<>>
    /\ trail' = <<>>
    /\ loadKind' = NoneS
    /\ iraised' = FALSE
    /\ istate0' = istate

(* the position after a step: a pass that returns or raises drops its      *)
(* locals                                                                  *)
PassGoes(label, who, f, d, i) ==
    /\ ipc' = label
    /\ icaller' = IF label = "idle" THEN NoneS ELSE who
    /\ iforce' = IF label = "idle" THEN FALSE ELSE f
    /\ deadline' = IF label = "idle" THEN 0 ELSE d
    /\ idx' = IF label = "idle" THEN 0 ELSE i

(* another program (the browser) replaces or removes the bookmarks file;   *)
(* the pass reads the file once, so a write during the loop is a write     *)
(* after it                                                                *)
I_write(s) ==
    /\ ipc # "loop"
    /\ s.kind # bsrc.kind \/ s.items # bsrc.items
    /\ s.snap # bsrc.snap
    /\ bsrc' = s
    /\ ForgetPass
    /\ UNCHANGED <<ipc, icaller, iforce, wloop, deadline, idx, istate>>
    /\ UNCHANGED trackerVars

(* run_forever 32-34 and run_once 44-51: the loop's test of the stop flag  *)
(* and the exists check                                                    *)
W_poll ==
    /\ ipc = "idle"
    /\ wloop = "running"
    /\ ~wstop
    /\ mono + stable_seconds <= MaxPollMono
    /\ PassGoes(IF bsrc.kind = "missing" THEN "idle" ELSE "observe", "watcher", FALSE, 0, 0)
    /\ loadKind' = IF bsrc.kind = "missing" THEN "missing" ELSE NoneS
    /\ order' = <<>>
    /\ trail' = <<>>
    /\ iraised' = FALSE
    /\ istate0' = istate
    /\ UNCHANGED <<bsrc, wloop, istate>>
    /\ UNCHANGED trackerVars

(* a tick that goes on to the coordinator whatever observe returned *)
AfterObserve_Unconditional(stable, W) == "load"

(* run_once 54-71: where the tick goes after the first observe *)
AfterObserve(stable, W) ==
    IF stable # <<>> THEN "load"
    ELSE IF W > 0 THEN "wait"
    ELSE "idle"

(* run_once 53-55: the first observe *)
W_observe ==
    /\ ipc = "observe"
    /\ LET r == Observe(seen, <<bookmarks_file>>, mono, stable_seconds, SrcStats)
       IN /\ seen' = r.seen
          /\ PassGoes(AfterObserve(r.stable, stable_seconds), icaller, iforce, mono + stable_seconds, 0)
    /\ UNCHANGED <<bsrc, wloop, order, istate, trail, loadKind, iraised, istate0>>
    /\ UNCHANGED <<stable_seconds, mono, stats, lastObs, nobs, restarted, fresh>>

(* a wait loop that does not look at the stop flag *)
W_wait_IgnoresStop ==
    /\ ipc = "wait"
    /\ IF mono < deadline
       THEN LET r == Observe(seen, <<bookmarks_file>>, mono + 1, stable_seconds, SrcStats)
            IN /\ mono' = mono + 1
               /\ seen' = r.seen
               /\ PassGoes(IF r.stable # <<>> THEN "load" ELSE "wait", icaller, iforce, deadline, 0)
       ELSE /\ PassGoes("idle", icaller, iforce, deadline, 0)
            /\ UNCHANGED <<mono, seen>>
    /\ UNCHANGED <<bsrc, wloop, order, istate, trail, loadKind, iraised, istate0>>
    /\ UNCHANGED <<stable_seconds, stats, lastObs, nobs, restarted, fresh>>

(* run_once 56-59: sleep and observe again until the deadline or the stop  *)
(* request                                                                 *)
W_wait ==
    /\ ipc = "wait"
    /\ IF mono < deadline /\ ~wstop
       THEN LET r == Observe(seen, <<bookmarks_file>>, mono + 1, stable_seconds, SrcStats)
            IN /\ mono' = mono + 1
               /\ seen' = r.seen
               /\ PassGoes(IF r.stable # <<>> THEN "load" ELSE "wait", icaller, iforce, deadline, 0)
       ELSE /\ PassGoes("idle", icaller, iforce, deadline, 0)
            /\ UNCHANGED <<mono, seen>>
    /\ UNCHANGED <<bsrc, wloop, order, istate, trail, loadKind, iraised, istate0>>
    /\ UNCHANGED <<stable_seconds, stats, lastObs, nobs, restarted, fresh>>

(* cli.py 74-83: wmt process-one *)
P_start(f) ==
    /\ ipc = "idle"
    /\ PassGoes("load", "process_one", f, 0, 0)
    /\ ForgetPass
    /\ UNCHANGED <<bsrc, wloop, istate>>
    /\ UNCHANGED trackerVars

(* process_one_from_inbox 229-246: load, sort, and the empty list; an      *)
(* exception other than BookmarksError leaves process_one_from_inbox,      *)
(* run_once (71-81) and run_forever (32-34), none of which catches it      *)
I_load ==
    /\ ipc = "load"
    /\ LET r == load_brave_inbox_bookmarks(bsrc)
           sorted == SortByKey(r.items)
       IN /\ loadKind' = bsrc.kind
          /\ iraised' = (r.raises = "Exception")
          /\ wloop' = IF r.raises = "Exception" /\ icaller = "watcher" THEN "dead" ELSE wloop
          /\ order' = sorted
          /\ PassGoes(IF r.raises = NoneS /\ sorted # <<>> THEN "loop" ELSE "idle", icaller, iforce, 0, 1)
    /\ UNCHANGED <<bsrc, istate, trail, istate0>>
    /\ UNCHANGED trackerVars

(* the results of process_bookmark_item for a claimed item: failed (no     *)
(* content, or an exception and mark_failed), in_progress (an exception    *)
(* and mark_failed raises too), processed (an outcome)                     *)
ItemResults == {"failed", "in_progress", "processed"}

(* process_one_from_inbox 248-264: one iteration of `for b in bookmarks`.  *)
(* `processed` is 0 whenever line 250 is reached, so the break is never    *)
(* taken.  result is what process_bookmark_item does once it has claimed   *)
(* the item; live tells whether an in_progress lease has not expired.      *)
I_item(live, result) ==
    /\ ipc = "loop"
    /\ LET u == order[idx].url
           status == StatusOf(istate, u)
           skip == ~iforce /\ (status \in {"processed", "failed"} \/ (status = "in_progress" /\ live))
           what == IF skip THEN "skipped" ELSE result
       IN /\ istate' = IF skip THEN istate ELSE Put(istate, u, result)
          /\ trail' = Append(trail, what)
          /\ PassGoes(IF what = "processed" \/ idx = Len(order) THEN "idle" ELSE "loop", icaller, iforce, 0, idx + 1)
    /\ UNCHANGED <<bsrc, wloop, order, loadKind, iraised, istate0>>
    /\ UNCHANGED trackerVars

(* time.sleep(poll_interval_seconds), or the time between two commands *)
I_sleep ==
    /\ ipc = "idle"
    /\ mono < MaxPollMono
    /\ mono' = mono + 1
    /\ ForgetPass
    /\ UNCHANGED <<bsrc, ipc, icaller, iforce, wloop, deadline, idx, istate>>
    /\ UNCHANGED <<stable_seconds, seen, stats, lastObs, nobs, restarted, fresh>>

NextInbox ==
    /\ \/ \E s \in Sources : I_write(s)
       \/ W_poll
       \/ W_observe
       \/ W_wait
       \/ \E f \in BOOLEAN : P_start(f)
       \/ I_load
       \/ \E live \in BOOLEAN, result \in ItemResults : I_item(live, result)
       \/ I_sleep
    /\ UNCHANGED <<ledgerVars, coordVars, fileVars, passVars, urlVars, liveVars, saveVars, watchVars>>

SpecInbox == InitInbox /\ [][NextInbox]_vars

-----------------------------------------------------------------------------
(* SpecWatch: the watch loop alone (run_forever), with the stop flag that  *)
(* a signal sets at any moment, over a bookmarks file with at most one     *)
(* bookmark.  The history variable counts the reports of the path.         *)

MaxReports == 2

WatchSources == {s \in Sources : s.kind \in {"missing", "invalid_json", "undecodable", "ok"} /\ Len(s.items) <= 1 /\ \A i \in DOMAIN s.items : s.items[i].date_added = NoneN}

InitWatch ==
    /\ bsrc \in WatchSources
    /\ ipc = "idle"
    /\ icaller = NoneS
    /\ iforce = FALSE
    /\ wloop = "running"
    /\ deadline = 0
    /\ order = <<>>
    /\ idx = 0
    /\ istate = <<>>
    /\ trail = <<>>
    /\ loadKind = NoneS
    /\ iraised = FALSE
    /\ istate0 = <<>>
    /\ stable_seconds \in InboxWindows
    /\ seen = <<>>
    /\ mono = 0
    /\ stats = <<>>
    /\ lastObs = <<>>
    /\ nobs = 0
    /\ restarted = <<>>
    /\ fresh = <<>>
    /\ wstop = FALSE
    /\ reported = <<>>
    /\ LedgerIdle /\ CoordIdle /\ FileIdle /\ PassIdle /\ UrlIdle /\ LiveIdle /\ SaveIdle

(* the history after a step of run_once 53-59 that may have called observe *)
CountReports ==
    reported' = IF ipc' = "load"
                THEN [p \in {bookmarks_file} |->
                         IF p \in DOMAIN reported /\ seen' = seen
                         THEN (IF reported[p] < MaxReports THEN reported[p] + 1 ELSE reported[p])
                         ELSE 1]
                ELSE IF seen' # seen THEN <<>> ELSE reported

(* Watcher.stop, called by the handler of SIGTERM / SIGINT (24-29) *)
W_stop ==
    /\ wloop = "running"
    /\ ~wstop
    /\ wstop' = TRUE
    /\ UNCHANGED <<inboxVars, trackerVars, reported>>

(* run_forever 32, 36: the loop's test finds the flag set *)
W_exit ==
    /\ ipc = "idle"
    /\ wloop = "running"
    /\ wstop
    /\ wloop' = "stopped"
    /\ ForgetPass
    /\ UNCHANGED <<bsrc, ipc, icaller, iforce, deadline, idx, istate>>
    /\ UNCHANGED <<trackerVars, watchVars>>

W_observe_counted == W_observe /\ CountReports /\ UNCHANGED wstop

W_wait_counted == W_wait /\ CountReports /\ UNCHANGED wstop

NextWatch ==
    /\ \/ (\E s \in WatchSources : I_write(s)) /\ UNCHANGED watchVars
       \/ W_poll /\ UNCHANGED watchVars
       \/ W_observe_counted
       \/ W_wait_counted
       \/ I_load /\ UNCHANGED watchVars
       \/ (\E live \in BOOLEAN, result \in ItemResults : I_item(live, result)) /\ UNCHANGED watchVars
       \/ I_sleep /\ UNCHANGED watchVars
       \/ W_stop
       \/ W_exit
    /\ UNCHANGED <<ledgerVars, coordVars, fileVars, passVars, urlVars, liveVars, saveVars>>

SpecWatch == InitWatch /\ [][NextWatch]_vars

(* the steps of the watcher's own thread once a tick has begun, and the    *)
(* loop's exit: the thread runs on until run_forever returns or raises     *)
WatcherRuns ==
    /\ \/ W_observe_counted
       \/ W_wait_counted
       \/ I_load /\ UNCHANGED watchVars
       \/ (\E live \in BOOLEAN, result \in ItemResults : I_item(live, result)) /\ UNCHANGED watchVars
       \/ W_exit
    /\ UNCHANGED <<ledgerVars, coordVars, fileVars, passVars, urlVars, liveVars, saveVars>>

FairSpecWatch == SpecWatch /\ WF_vars(WatcherRuns)

-----------------------------------------------------------------------------
(* SpecUrl: normalize_url (urls.py) and the item identity (bookmarks.py    *)
(* 50-68, pipeline.py 279-293).  A URL is a sequence of characters; a run  *)
(* of characters that the functions never look inside (a scheme, a host    *)
(* name, a path segment, a parameter name, a percent-encoded triple) is    *)
(* one element of the sequence.                                            *)

(* the characters, in the order of Python's string comparison; none is a   *)
(* prefix of another, so comparing sequences element by element is         *)
(* comparing the strings                                                   *)
UrlChars == <<" ", "#", "%20", "%23", "%26", "%2B", "%3D", "&", "+", "/", "10s", "443", "7", "8080", ":", "=", "?", "@", "Example.com", "HTTPS", "K", "abc123", "example.com", "f", "https", "k", "p", "ref", "shorts", "t", "utm_source", "v", "watch", "www.youtube.com", "youtu.be", "youtube.com">>

CharRank(c) == CHOOSE i \in DOMAIN UrlChars : UrlChars[i] = c

(* str.lower *)
LowerChar(c) ==
    CASE c = "HTTPS" -> "https"
      [] c = "Example.com" -> "example.com"
      [] c = "K" -> "k"
      [] OTHER -> c

Lower(s) == [i \in DOMAIN s |-> LowerChar(s[i])]

(* str.find, counted from 1; 0 when the character is not there *)
IndexOf(s, c) == IF \E i \in DOMAIN s : s[i] = c THEN CHOOSE i \in DOMAIN s : s[i] = c /\ \A j \in 1..(i - 1) : s[j] # c ELSE 0

(* str.rfind *)
LastIndexOf(s, c) == IF \E i \in DOMAIN s : s[i] = c THEN CHOOSE i \in DOMAIN s : s[i] = c /\ \A j \in (i + 1)..Len(s) : s[j] # c ELSE 0

(* s[i:] *)
From(s, i) == SubSeq(s, i, Len(s))

(* s[:n] *)
Upto(s, n) == SubSeq(s, 1, IF n < Len(s) THEN n ELSE Len(s))

(* str.lstrip, str.rstrip, str.strip *)
RECURSIVE LStrip(_, _)
LStrip(s, cs) == IF s # <<>> /\ s[1] \in cs THEN LStrip(Tail(s), cs) ELSE s

RECURSIVE RStrip(_, _)
RStrip(s, cs) == IF s # <<>> /\ s[Len(s)] \in cs THEN RStrip(SubSeq(s, 1, Len(s) - 1), cs) ELSE s

Strip(s, cs) == RStrip(LStrip(s, cs), cs)

Whitespace == {" "}

(* str.split(sep) *)
RECURSIVE Split(_, _)
Split(s, sep) ==
    LET i == IndexOf(s, sep)
    IN  IF i = 0 THEN <<s>> ELSE <<SubSeq(s, 1, i - 1)>> \o Split(From(s, i + 1), sep)

(* sep.join(pieces) *)
RECURSIVE JoinWith(_, _)
JoinWith(pieces, sep) ==
    IF pieces = <<>> THEN <<>>
    ELSE IF Len(pieces) = 1 THEN pieces[1]
    ELSE pieces[1] \o <<sep>> \o JoinWith(Tail(pieces), sep)

(* the order of two strings *)
RECURSIVE StrLess(_, _)
StrLess(a, b) ==
    IF b = <<>> THEN FALSE
    ELSE IF a = <<>> THEN TRUE
    ELSE IF a[1] # b[1] THEN CharRank(a[1]) < CharRank(b[1])
    ELSE StrLess(Tail(a), Tail(b))

(* urllib.parse scheme_chars: letters, digits, "+", "-", "." *)
SchemeChars == {"+", "10s", "443", "7", "8080", "Example.com", "HTTPS", "K", "abc123", "example.com", "f", "https", "k", "p", "ref", "shorts", "t", "v", "watch", "www.youtube.com", "youtu.be", "youtube.com"}

(* the characters that begin with a letter *)
AlphaChars == SchemeChars \ {"+", "10s", "443", "7", "8080"}

(* the first position of one of "/", "?", "#", or Len + 1 *)
NetlocEnd(s) == IF \E i \in DOMAIN s : s[i] \in {"/", "?", "#"} THEN CHOOSE i \in DOMAIN s : s[i] \in {"/", "?", "#"} /\ \A j \in 1..(i - 1) : s[j] \notin {"/", "?", "#"} ELSE Len(s) + 1

(* urlsplit 509-516: the query after the first "?" of what precedes the    *)
(* fragment                                                                *)
SplitQuery(scheme, netloc, rest, fragment) ==
    LET q == IndexOf(rest, "?")
    IN  [scheme |-> scheme, netloc |-> netloc,
         path |-> IF q = 0 THEN rest ELSE SubSeq(rest, 1, q - 1),
         query |-> IF q = 0 THEN <<>> ELSE From(rest, q + 1),
         fragment |-> fragment]

(* urlsplit 509-510: the fragment after the first "#" *)
SplitFragment(scheme, netloc, rest) ==
    LET h == IndexOf(rest, "#")
    IN  IF h = 0 THEN SplitQuery(scheme, netloc, rest, <<>>)
        ELSE SplitQuery(scheme, netloc, SubSeq(rest, 1, h - 1), From(rest, h + 1))

(* urlsplit 503-508: the netloc after "//", up to the first "/", "?", "#" *)
SplitNetloc(scheme, rest) ==
    IF Upto(rest, 2) = <<"/", "/">>
    THEN SplitFragment(scheme, SubSeq(rest, 3, NetlocEnd(From(rest, 3)) + 1), From(rest, NetlocEnd(From(rest, 3)) + 2))
    ELSE SplitFragment(scheme, <<>>, rest)

(* urlsplit 496-502: the scheme before the first ":" *)
SplitScheme(url) ==
    LET i == IndexOf(url, ":")
    IN  IF i > 1 /\ url[1] \in AlphaChars /\ \A j \in 1..(i - 1) : url[j] \in SchemeChars
        THEN SplitNetloc(Lower(SubSeq(url, 1, i - 1)), From(url, i + 1))
        ELSE SplitNetloc(<<>>, url)

(* urllib.parse.urlsplit *)
urlsplit(url0) == SplitScheme(LStrip(url0, Whitespace))

(* netloc.rpartition("@")[2] *)
HostInfo(netloc) == From(netloc, LastIndexOf(netloc, "@") + 1)

(* SplitResult.hostname: after the last "@", before the ":", lowercased *)
hostname(netloc) == Lower(Split(HostInfo(netloc), ":")[1])

PortNumbers == {"443", "8080"}

(* int(port) of the text after the ":" *)
PortOf(text) ==
    IF text = <<>> THEN NoneS
    ELSE IF Len(text) = 1 /\ text[1] \in PortNumbers THEN text[1]
    ELSE "ValueError"

(* SplitResult.port: None, the number, or ValueError *)
port(netloc) == IF IndexOf(HostInfo(netloc), ":") = 0 THEN NoneS ELSE PortOf(From(HostInfo(netloc), IndexOf(HostInfo(netloc), ":") + 1))

(* urllib.parse.unquote after replace("+", " ") *)
UnquoteChar(c) ==
    CASE c = "+" -> " "
      [] c = "%20" -> " "
      [] c = "%23" -> "#"
      [] c = "%26" -> "&"
      [] c = "%2B" -> "+"
      [] c = "%3D" -> "="
      [] OTHER -> c

Unquote(s) == [i \in DOMAIN s |-> UnquoteChar(s[i])]

(* one name=value piece of a query *)
ParsePair(piece) ==
    LET i == IndexOf(piece, "=")
    IN  IF i = 0 THEN <<Unquote(piece), <<>>>>
        ELSE <<Unquote(SubSeq(piece, 1, i - 1)), Unquote(From(piece, i + 1))>>

NonEmpty(piece) == piece # <<>>

(* urllib.parse.parse_qsl(query, keep_blank_values=True) *)
parse_qsl(query) ==
    LET pieces == IF query = <<>> THEN <<>> ELSE SelectSeq(Split(query, "&"), NonEmpty)
    IN  [i \in DOMAIN pieces |-> ParsePair(pieces[i])]

(* urls.py 10-23 *)
_DROP_QUERY_KEYS == {<<"gclid">>, <<"fbclid">>, <<"igshid">>, <<"mc_cid">>, <<"mc_eid">>, <<"_hsenc">>, <<"_hsmi">>, <<"ref">>, <<"ref_src">>, <<"spm">>}

(* lowered.startswith("utm_") *)
StartsWithUtm(lowered) == lowered # <<>> /\ lowered[1] = "utm_source"

KeptPair(kv) ==
    LET lowered == Lower(kv[1])
    IN  lowered # <<>> /\ ~StartsWithUtm(lowered) /\ lowered \notin _DROP_QUERY_KEYS

(* urls.py 31-43 *)
_drop_tracking_params(pairs) == SelectSeq([i \in DOMAIN pairs |-> <<Strip(pairs[i][1], Whitespace), pairs[i][2]>>], KeptPair)

(* the order of the keys (kv[0].lower(), kv[1]) *)
PairLeq(p, q) ==
    \/ StrLess(Lower(p[1]), Lower(q[1]))
    \/ Lower(p[1]) = Lower(q[1]) /\ ~StrLess(q[2], p[2])

(* query_pairs.sort(key=...): a stable sort *)
RECURSIVE InsertPair(_, _)
InsertPair(s, kv) ==
    IF s = <<>> THEN <<kv>>
    ELSE IF PairLeq(s[Len(s)], kv) THEN Append(s, kv)
    ELSE Append(InsertPair(SubSeq(s, 1, Len(s) - 1), kv), s[Len(s)])

RECURSIVE SortPairs(_)
SortPairs(s) == IF s = <<>> THEN <<>> ELSE InsertPair(SortPairs(SubSeq(s, 1, Len(s) - 1)), s[Len(s)])

(* "&".join(f"{k}={v}" for k, v in query_pairs) *)
JoinPairs(pairs) == JoinWith([i \in DOMAIN pairs |-> pairs[i][1] \o <<"=">> \o pairs[i][2]], "&")

(* urlunsplit 535-538: "//" and the netloc put before the path *)
WithNetloc(scheme, netloc, path) ==
    IF netloc # <<>> \/ (scheme \in {<<"https">>, <<"http">>} /\ Upto(path, 2) # <<"/", "/">>)
    THEN <<"/", "/">> \o netloc \o (IF path # <<>> /\ path[1] # "/" THEN <<"/">> ELSE <<>>) \o path
    ELSE path

(* urlunsplit 539-540 *)
WithScheme(scheme, url) == IF scheme # <<>> THEN scheme \o <<":">> \o url ELSE url

(* urlunsplit 541-542 *)
WithQuery(url, query) == IF query # <<>> THEN url \o <<"?">> \o query ELSE url

(* urllib.parse.urlunsplit((scheme, netloc, path, query, "")) *)
urlunsplit(scheme, netloc, path, query) == WithQuery(WithScheme(scheme, WithNetloc(scheme, netloc, path)), query)

(* urls.py 49-51 *)
_is_youtube_host(host) == Lower(Strip(host, Whitespace)) \in {<<"youtu.be">>, <<"youtube.com">>, <<"www.youtube.com">>}

(* dict(pairs).get("v"): the value of the last pair named v, or nothing *)
LastV(pairs) ==
    LET I == {i \in DOMAIN pairs : pairs[i][1] = <<"v">>}
    IN  IF I = {} THEN <<>> ELSE pairs[CHOOSE i \in I : \A j \in I : j <= i][2]

CanonicalYoutube(video_id) == <<"https", ":", "/", "/", "www.youtube.com", "/", "watch", "?", "v", "=">> \o video_id

(* a video id read from the v parameter whatever the path *)
VideoId_AnyPath(host, path, query) == LastV(parse_qsl(query))

(* urls.py 62-78: the video id, or <<>> for None *)
VideoId(host, path, query) ==
    IF host = <<"youtu.be">> THEN Split(Strip(path, {"/"}), "/")[1]
    ELSE IF RStrip(path, {"/"}) = <<"/", "watch">> THEN LastV(parse_qsl(query))
    ELSE IF Upto(path, 3) = <<"/", "shorts", "/">> THEN Split(path, "/")[3]
    ELSE <<>>

(* urls.py 56-60, 79-80 *)
CanonicalOfParts(parts) ==
    IF ~_is_youtube_host(hostname(parts.netloc)) \/ VideoId(hostname(parts.netloc), parts.path, parts.query) = <<>> THEN <<>>
    ELSE CanonicalYoutube(VideoId(hostname(parts.netloc), parts.path, parts.query))

(* urls.py 54-80: the canonical URL, or <<>> for None *)
_canonicalize_youtube(url) == CanonicalOfParts(urlsplit(Strip(url, Whitespace)))

(* urls.py 96-105: the netloc written back *)
NetlocOf(scheme, netloc, host, pt) ==
    IF pt = NoneS \/ (scheme = <<"https">> /\ pt = "443") \/ (scheme = <<"http">> /\ pt = "80")
    THEN Upto(netloc, IndexOf(netloc, "@")) \o host
    ELSE Upto(netloc, IndexOf(netloc, "@")) \o host \o <<":", pt>>

(* urls.py 107-109 *)
PathOf(path) == IF path = <<>> \/ path = <<"/">> THEN <<"/">> ELSE RStrip(path, {"/"})

(* urls.py 111-115 *)
QueryOf(query) == JoinPairs(SortPairs(_drop_tracking_params(parse_qsl(query))))

(* urls.py 92-121 *)
NormalizeParts(parts) ==
    IF port(parts.netloc) = "ValueError" THEN <<"ValueError">>
    ELSE urlunsplit(parts.scheme, NetlocOf(parts.scheme, parts.netloc, hostname(parts.netloc), port(parts.netloc)), PathOf(parts.path), QueryOf(parts.query))

(* urls.py 85-91 *)
NormalizeStripped(url) ==
    IF url = <<>> THEN <<>>
    ELSE IF _canonicalize_youtube(url) # <<>> THEN _canonicalize_youtube(url)
    ELSE NormalizeParts(urlsplit(url))

(* urls.py 83-121; <<"ValueError">> when parts.port raises *)
normalize_url(url0) == NormalizeStripped(Strip(url0, Whitespace))

(* urls.py 26-28 *)
is_probably_http_url(url) ==
    LET u == Lower(Strip(url, Whitespace))
    IN  Len(u) >= 4 /\ u[1] \in {"http", "https"} /\ SubSeq(u, 2, 4) = <<":", "/", "/">>

(* x or '' *)
OrEmpty(x) == IF x = NoneS THEN <<>> ELSE <<x>>

(* an identity string that also carries the title *)
identity_string_WithTitle(item, normalized_url) ==
    <<"url=">> \o normalized_url
    \o <<"\n", "date_added=">> \o OrEmpty(item.date_added_raw)
    \o <<"\n", "guid=">> \o OrEmpty(item.guid)
    \o <<"\n", "id=">> \o OrEmpty(item.id)
    \o <<"\n", "title=">> \o OrEmpty(item.title)

(* bookmarks.py 50-65 *)
identity_string(item, normalized_url) ==
    <<"url=">> \o normalized_url
    \o <<"\n", "date_added=">> \o OrEmpty(item.date_added_raw)
    \o <<"\n", "guid=">> \o OrEmpty(item.guid)
    \o <<"\n", "id=">> \o OrEmpty(item.id)

(* sha256(...).hexdigest(): one digest for each string *)
Sha256Hex(text) == <<"sha256", text>>

(* bookmarks.py 67-68 *)
identity_sha256(item, normalized_url) == Sha256Hex(identity_string(item, normalized_url))

(* BookmarkItem(url, title, guid, id, date_added_raw) *)
BookmarkItem(url, title, guid, id, date_added_raw) == [url |-> url, title |-> title, guid |-> guid, id |-> id, date_added_raw |-> date_added_raw]

Titles == {NoneS, "T1", "T2"}
Guids == {NoneS, "g1", "g2"}
NodeIds == {NoneS, "5"}
DateTokens == {NoneS, "13"}

(* the inputs *)
Heads == {<<"https">>, <<"HTTPS">>}
Netlocs == {<<"example.com">>, <<"Example.com">>, <<"example.com", ":", "443">>, <<"example.com", ":", "8080">>, <<"youtu.be">>, <<"youtube.com">>, <<"www.youtube.com">>}
Paths == {<<>>, <<"/">>, <<"/", "/">>, <<"/", "p">>, <<"/", "p", "/">>, <<"/", "watch">>, <<"/", "watch", "/">>, <<"/", "shorts", "/", "abc123">>, <<"/", "shorts", "/">>, <<"/", "abc123">>, <<"/", "abc123", "/", "p">>}
ParamNames == {"k", "K", "v", "t", "utm_source", "ref"}
ParamValues == {<<>>, <<"=">>, <<"=", "7">>, <<"=", "abc123">>, <<"=", "10s">>, <<"=", "%26">>, <<"=", "%23">>, <<"=", "%3D">>, <<"=", "%2B">>, <<"=", "+">>, <<"=", "%20">>}
FirstParams == {<<n>> \o v : n \in ParamNames, v \in ParamValues}
MoreParams == {<<>>, <<"&", "t", "=", "10s">>, <<"&", "utm_source", "=", "7">>, <<"&", "k", "=", "7">>, <<"&", "v", "=", "abc123">>}
Queries == {<<>>} \cup {<<"?">> \o p \o m : p \in FirstParams, m \in MoreParams}
Fragments == {<<>>, <<"#", "f">>}

UrlInputs == {h \o <<":", "/", "/">> \o n \o p \o q \o f : h \in Heads, n \in Netlocs, p \in Paths, q \in Queries, f \in Fragments}

(* the URLs the items are made for *)
IdentityUrls == {<<"https", ":", "/", "/", "example.com", "/", "p">>, <<"https", ":", "/", "/", "example.com", "/", "p", "/">>, <<"https", ":", "/", "/", "youtu.be", "/", "abc123">>, <<"https", ":", "/", "/", "www.youtube.com", "/", "watch", "?", "v", "=", "abc123">>}

InitUrl ==
    /\ uurl \in UrlInputs
    /\ unorm = <<>>
    /\ unorm2 = <<>>
    /\ itemA = <<>>
    /\ itemB = <<>>
    /\ idA = <<>>
    /\ idB = <<>>
    /\ LedgerIdle /\ CoordIdle /\ FileIdle /\ TrackerIdle /\ PassIdle /\ InboxIdle /\ WatchIdle /\ LiveIdle /\ SaveIdle

(* normalize_url(url) *)
U_normalize ==
    /\ unorm = <<>>
    /\ itemA = <<>>
    /\ unorm' = <<normalize_url(uurl)>>
    /\ UNCHANGED <<uurl, unorm2, itemA, itemB, idA, idB>>

(* normalize_url of the result *)
U_renormalize ==
    /\ unorm # <<>>
    /\ unorm2 = <<>>
    /\ unorm2' = <<normalize_url(unorm[1])>>
    /\ UNCHANGED <<uurl, unorm, itemA, itemB, idA, idB>>

(* process_one_from_inbox 258-260 / process_bookmark_item 125-128: the     *)
(* identities of two bookmarks read from the file                          *)
U_bookmarks(a, b) ==
    /\ unorm = <<>>
    /\ itemA = <<>>
    /\ a.url = uurl
    /\ itemA' = <<a, normalize_url(a.url)>>
    /\ itemB' = <<b, normalize_url(b.url)>>
    /\ idA' = <<identity_sha256(a, normalize_url(a.url))>>
    /\ idB' = <<identity_sha256(b, normalize_url(b.url))>>
    /\ UNCHANGED <<uurl, unorm, unorm2>>

(* process_url 279-293: the identities of two manual items *)
U_manual(url2, title1, title2) ==
    /\ unorm = <<>>
    /\ itemA = <<>>
    /\ uurl \in IdentityUrls
    /\ is_probably_http_url(normalize_url(uurl))
    /\ is_probably_http_url(normalize_url(url2))
    /\ LET a == BookmarkItem(normalize_url(uurl), title1, NoneS, NoneS, NoneS)
           b == BookmarkItem(normalize_url(url2), title2, NoneS, NoneS, NoneS)
       IN /\ itemA' = <<a, normalize_url(uurl)>>
          /\ itemB' = <<b, normalize_url(url2)>>
          /\ idA' = <<identity_sha256(a, normalize_url(uurl))>>
          /\ idB' = <<identity_sha256(b, normalize_url(url2))>>
    /\ UNCHANGED <<uurl, unorm, unorm2>>

UrlItems(urls) == {BookmarkItem(u, t, g, i, d) : u \in urls, t \in Titles, g \in Guids, i \in NodeIds, d \in DateTokens}

NextUrl ==
    /\ \/ U_normalize
       \/ U_renormalize
       \/ \E a \in UrlItems(IdentityUrls \cap {uurl}), b \in UrlItems(IdentityUrls) : U_bookmarks(a, b)
       \/ \E url2 \in IdentityUrls, t1 \in Titles, t2 \in Titles : U_manual(url2, t1, t2)
    /\ UNCHANGED <<ledgerVars, coordVars, fileVars, trackerVars, passVars, inboxVars, watchVars, liveVars, saveVars>>

SpecUrl == InitUrl /\ [][NextUrl]_vars

-----------------------------------------------------------------------------
(* SpecLive: the passes of the watch loop over an Inbox that stays as it   *)
(* is.  The file is stable, so every tick opens the ledger and makes one   *)
(* pass without force (watcher.py 61-81), with the steps of Spec; ticks    *)
(* are not counted.  Some bookmarks have a URL that is not http(s).  Up to *)
(* MaxPassFaults steps raise or are killed (the watcher is then started    *)
(* again), all of them early enough for the clock, which stops at MaxNow,  *)
(* to run past the lease they leave.                                       *)

InitLive ==
    /\ backend \in {"json", "sqlite"}
    /\ file = EmptyDoc
    /\ data = [p \in Procs |-> EmptyDoc]
    /\ pc = [p \in Procs |-> "idle"]
    /\ kind = [p \in Procs |-> "inbox"]
    /\ force = [p \in Procs |-> FALSE]
    /\ cur = [p \in Procs |-> 1]
    /\ outfile = [p \in Procs |-> NoneS]
    /\ cstatus = [p \in Procs |-> NoneS]
    /\ now = 0
    /\ outputs = {}
    /\ partial = {}
    /\ published = [i \in Items |-> 0]
    /\ nruns = 0
    /\ nfaults = MaxFaults - MaxPassFaults
    /\ overlapped = FALSE
    /\ http \in [Items -> BOOLEAN]
    /\ LedgerIdle /\ FileIdle /\ TrackerIdle /\ PassIdle /\ InboxIdle /\ UrlIdle /\ WatchIdle /\ SaveIdle

(* watcher.py 69-73: a tick of the watch loop reaches open_state_store and *)
(* process_one_from_inbox                                                  *)
WatcherTick(p) == Opens(p, "inbox", FALSE, 1) /\ UNCHANGED nruns

(* pipeline.py 125-128: a bookmark whose URL is not http(s) is passed over *)
(* before its identity is computed                                         *)
NotHttp(p) ==
    /\ pc[p] = "skip_check"
    /\ ~http[cur[p]]
    /\ NextCandidate(p)
    /\ data' = [data EXCEPT ![p] = Closed(p, @)]
    /\ UNCHANGED <<ledgerVars, fileVars, trackerVars, backend, file, now, outputs, partial, published, nruns, nfaults, overlapped>>

(* pipeline.py 125-134: the state check is reached with an http(s) URL *)
HttpShouldSkip(p) == http[cur[p]] /\ ShouldSkip(p)

(* the steps the pass takes when nothing goes wrong: what the watcher's    *)
(* thread does next                                                        *)
PassGoesOn(p) ==
    \/ WatcherTick(p)
    \/ NotHttp(p)
    \/ HttpShouldSkip(p)
    \/ LeaseCheck(p)
    \/ Claim(p)
    \/ \E usable \in BOOLEAN : Retrieve(p, usable)
    \/ \E cs \in {"ok", "unavailable"} : Generate(p, cs)
    \/ WriteOutput(p)
    \/ ReplaceOutput(p)
    \/ \E ok \in BOOLEAN : Publish(p, ok)
    \/ MarkProcessed(p)
    \/ Handler(p, TRUE)

(* a step raises, mark_failed fails at the batch boundary, or the process  *)
(* is killed                                                               *)
PassFault(p) ==
    /\ now + in_progress_ttl_seconds < MaxNow
    /\ \/ PipelineRaises(p)
       \/ ClaimRaises(p)
       \/ MarkProcessedRaises(p)
       \/ Handler(p, FALSE)
       \/ Crash(p)

LiveFrame == UNCHANGED <<passVars, inboxVars, urlVars, watchVars, liveVars, saveVars>>

NextLive ==
    /\ \/ PassGoesOn("watcher")
       \/ PassFault("watcher")
       \/ Tick
    /\ LiveFrame

SpecLive == InitLive /\ [][NextLive]_vars

(* The watcher's thread keeps running (run_forever's loop, and systemd or  *)
(* the user starting it again after a kill), and time passes.              *)
WatcherGoesOn == PassGoesOn("watcher") /\ LiveFrame

TimePasses == Tick /\ LiveFrame

FairSpecLive == SpecLive /\ WF_vars(WatcherGoesOn) /\ WF_vars(TimePasses)

-----------------------------------------------------------------------------
(* Claims about the coordinator (Spec).                                    *)

(* the record of item i in the ledger storage *)
StoredRec(i) == IF i \in DOMAIN file.records THEN <<file.records[i]>> ELSE <<>>

(* r is an in_progress claim whose lease has not expired *)
Unexpired(r) ==
    /\ r # <<>>
    /\ r[1].status = "in_progress"
    /\ r[1].started_at # NoneN
    /\ now - r[1].started_at <= in_progress_ttl_seconds

Terminal(r) == r # <<>> /\ r[1].status \in {"processed", "failed"}

(* p has claimed its item and has not yet returned *)
InPipeline(p) == pc[p] \in {"retrieve", "generate", "write", "replace", "publish", "mark_processed"}

(* this step is a step of invocation p *)
Stepped(p) == pc'[p] # pc[p] \/ cur'[p] # cur[p]

(* the output files written for item i *)
OutputsOf(i) == {k \in 1..(MaxRuns + 1) : ToString(<<i, k>>) \in outputs}

NoEffect == file' = file /\ outputs' = outputs /\ published' = published

(* C1, as stated: while a non-force invocation q holds an unexpired        *)
(* in_progress claim on an item and runs its pipeline, another non-force   *)
(* invocation p never claims the same item.                                *)
C1_AtMostOneClaims ==
    [][\A p, q \in Procs :
          (/\ p # q /\ ~force[p] /\ ~force[q]
           /\ InPipeline(q) /\ cur[q] = cur[p]
           /\ Unexpired(StoredRec(cur[p]))
           /\ pc[p] = "claim")
          => pc'[p] # "retrieve"]_vars

(* C1, amended: the lease check and the claim are not atomic, so two       *)
(* invocations can both claim an item.  While q holds an unexpired         *)
(* in_progress claim and runs the pipeline, a non-force invocation p whose *)
(* lease check reads that claim does not go on to claim the item.          *)
C1_NoClaimWhenLeaseRead ==
    [][\A p, q \in Procs :
          (/\ p # q /\ ~force[p]
           /\ InPipeline(q) /\ cur[q] = cur[p]
           /\ Unexpired(StoredRec(cur[p]))
           /\ StateGet(p, cur[p]) = StoredRec(cur[p])
           /\ pc[p] = "lease_check")
          => pc'[p] # "claim"]_vars

C1_Witness ==
    \E p, q \in Procs :
        /\ p # q /\ ~force[p] /\ ~force[q]
        /\ InPipeline(q) /\ cur[q] = cur[p]
        /\ Unexpired(StoredRec(cur[p]))
        /\ StateGet(p, cur[p]) = StoredRec(cur[p])
        /\ pc[p] = "lease_check"

(* C2, as stated: with the JSON backend no write removes a stored record,  *)
(* and a stored record is changed only by a step of an invocation that is  *)
(* working on that item.                                                   *)
C2_JsonKeepsOthersRecords ==
    [][backend = "json" =>
          \A i \in DOMAIN file.records :
              /\ i \in DOMAIN file'.records
              /\ file'.records[i] # file.records[i]
                    => \E p \in Procs : Stepped(p) /\ cur[p] = i]_vars

(* C3, as stated (SQLite backend, where every write touches one row): no   *)
(* step of a non-force invocation changes a record whose status is         *)
(* processed.                                                              *)
C3_ProcessedStays ==
    [][\A p \in Procs, i \in Items :
          (/\ backend = "sqlite"
           /\ Stepped(p) /\ ~force[p]
           /\ StoredRec(i) # <<>> /\ StoredRec(i)[1].status = "processed")
          => StoredRec(i)' = StoredRec(i)]_vars

(* C3, amended: as long as no two invocations have overlapped, no step of  *)
(* a non-force invocation changes a record whose status is processed.      *)
C3_ProcessedStaysWithoutOverlap ==
    [][\A p \in Procs, i \in Items :
          (/\ ~overlapped
           /\ Stepped(p) /\ ~force[p]
           /\ StoredRec(i) # <<>> /\ StoredRec(i)[1].status = "processed")
          => StoredRec(i)' = StoredRec(i)]_vars

C3_Witness ==
    \E p \in Procs :
        /\ ~overlapped /\ ~force[p]
        /\ pc[p] = "mark_processed" /\ cur[p] = 2
        /\ StoredRec(1) # <<>> /\ StoredRec(1)[1].status = "processed"

(* C4, as stated: with invocations one after the other, a non-force        *)
(* invocation never writes an output file for an item that already has     *)
(* one, and never publishes an item that was already published.            *)
C4_EffectsAtMostOnce ==
    [][\A p \in Procs :
          (~overlapped /\ ~force[p]) =>
              /\ (pc[p] = "write" /\ pc'[p] = "publish") => OutputsOf(cur[p]) = {}
              /\ (/\ pc[p] = "publish" /\ pc'[p] = "mark_processed"
                  /\ published'[cur[p]] # published[cur[p]]) => published[cur[p]] = 0]_vars

(* C4, amended: with invocations one after the other, the pipeline of an   *)
(* item runs only under a stored in_progress claim, and a non-force        *)
(* invocation claims an item only when it has no record or its record is   *)
(* in_progress with an expired lease.                                      *)
C4_ClaimOnlyIfAbsentOrExpired ==
    \A p \in Procs :
        (~overlapped /\ ~force[p] /\ pc[p] = "claim" /\ pc'[p] = "retrieve") =>
            \/ StoredRec(cur[p]) = <<>>
            \/ StoredRec(cur[p])[1].status = "in_progress" /\ ~Unexpired(StoredRec(cur[p]))

C4_PipelineUnderClaim ==
    \A p \in Procs :
        (~overlapped /\ InPipeline(p)) =>
            StoredRec(cur[p]) # <<>> /\ StoredRec(cur[p])[1].status = "in_progress"

C4_RepeatOnlyAfterExpiry ==
    []C4_PipelineUnderClaim /\ [][C4_ClaimOnlyIfAbsentOrExpired]_vars

C4_Witness ==
    \E p \in Procs :
        /\ ~overlapped /\ ~force[p]
        /\ pc[p] = "publish"
        /\ Cardinality(OutputsOf(cur[p])) = 2

(* C5: a non-force invocation that reads status processed or failed for    *)
(* the item it considers skips it: the ledger (records and source          *)
(* snapshots), the output directory and the published notes are unchanged, *)
(* and the invocation goes to the next candidate or returns.               *)
C5_TerminalSkipNoEffect ==
    [][\A p \in Procs :
          (/\ pc[p] = "skip_check" /\ ~force[p]
           /\ Terminal(StateGet(p, cur[p]))
           /\ Stepped(p))
          => NoEffect /\ pc'[p] \in {"skip_check", "idle"}]_vars

C5_Witness ==
    \E p \in Procs :
        /\ kind[p] = "inbox" /\ ~force[p]
        /\ pc[p] = "skip_check" /\ cur[p] = 2
        /\ StateGet(p, 1) # <<>> /\ StateGet(p, 1)[1].status = "processed"

(* C6: a non-force invocation that reads an in_progress record with an     *)
(* unexpired lease (now - started_at <= ttl) skips the item: the ledger is *)
(* unchanged (started_at is not refreshed), nothing is written or          *)
(* published, and the invocation goes to the next candidate or returns.    *)
C6_LiveLeaseSkip ==
    [][\A p \in Procs :
          (/\ pc[p] = "lease_check" /\ ~force[p]
           /\ Unexpired(StateGet(p, cur[p]))
           /\ Stepped(p))
          => NoEffect /\ pc'[p] \in {"skip_check", "idle"}]_vars

C6_Witness ==
    \E p \in Procs :
        /\ backend = "json" /\ nfaults = 0
        /\ kind[p] = "inbox" /\ ~force[p]
        /\ pc[p] = "skip_check" /\ cur[p] = 2
        /\ Unexpired(StateGet(p, 1))

(* no output path shows text that is not all written *)
NoPartialOutput == outputs \cap partial = {}

(* the topic_file of every processed record is a complete file *)
ProcessedHasOutput ==
    \A i \in DOMAIN file.records :
        file.records[i].status = "processed" =>
            file.records[i].topic_file \in outputs \ partial

(* C26: the output is written to a temporary file and renamed, and only    *)
(* then is the item marked processed: in every reachable state, kills and  *)
(* exceptions at any step included, a processed record's topic_file exists *)
(* at its final path with complete text, and no output path ever shows a   *)
(* partly written file.                                                    *)
C26_OutputBeforeProcessed == NoPartialOutput /\ ProcessedHasOutput

(* an item is processed while a killed writer's unfinished temporary file  *)
(* lies in the output directory                                            *)
C26_Witness ==
    /\ partial # {}
    /\ \A p \in Procs : pc[p] # "replace"
    /\ \E i \in DOMAIN file.records : file.records[i].status = "processed"

(* a step of a force invocation that neither raises nor is killed goes     *)
(* from the state check to the lease check, to the claim, and the claim    *)
(* writes in_progress with started_at = now                                *)
ForceClaims ==
    \A p \in Procs, i \in Items :
        (force[p] /\ cur[p] = i /\ Stepped(p) /\ nfaults' = nfaults) =>
            /\ pc[p] = "skip_check" => pc'[p] = "lease_check"
            /\ pc[p] = "lease_check" => pc'[p] = "claim"
            /\ pc[p] = "claim" =>
                  /\ pc'[p] = "retrieve"
                  /\ StoredRec(i)' # <<>>
                  /\ StoredRec(i)'[1].status = "in_progress"
                  /\ StoredRec(i)'[1].started_at = now

(* the claim of a non-force invocation is not written over a processed or  *)
(* failed record                                                           *)
NoReentryWithoutForce ==
    \A p \in Procs, i \in Items :
        (~force[p] /\ cur[p] = i /\ pc[p] = "claim" /\ pc'[p] = "retrieve") =>
            ~Terminal(StoredRec(i))

(* C29, as stated: an invocation with force claims the item whatever its   *)
(* record is (absent, processed, failed, in_progress with a live lease),   *)
(* re-entering in_progress with a new started_at and running the pipeline; *)
(* without force a processed or failed record is never re-entered.         *)
C29_ForceAsStated == [][ForceClaims /\ NoReentryWithoutForce]_vars

(* C29, amended: the same, the second half for invocations that have not   *)
(* overlapped with another.                                                *)
C29_Force == [][ForceClaims /\ (~overlapped => NoReentryWithoutForce)]_vars

(* a force invocation has claimed an item that an earlier invocation had   *)
(* processed, and is in the pipeline                                       *)
C29_Witness ==
    \E p \in Procs :
        /\ force[p] /\ ~overlapped /\ nfaults = 0
        /\ pc[p] = "retrieve"
        /\ OutputsOf(cur[p]) # {}
        /\ StoredRec(cur[p]) # <<>> /\ StoredRec(cur[p])[1].status = "in_progress"

-----------------------------------------------------------------------------
(* Claims about one invocation (SpecPass).                                 *)

PassProc == "oneshot"

(* the invocation ends with this step; it was killed; its exception left   *)
(* the entry point                                                         *)
Finishes == pc[PassProc] # "idle" /\ pc'[PassProc] = "idle"
Killed == step' = "Crash"
Raised == Finishes /\ step' \in {"PipelineRaises", "ClaimRaises", "MarkProcessedRaises"}

(* the handling of the current item ends with this step *)
ItemDone == pc[PassProc] # "idle" /\ (pc'[PassProc] = "idle" \/ cur'[PassProc] # cur[PassProc])

(* the stored record of the item the step worked on, after the step *)
RecAfter == LET rs == {StoredRec(i)' : i \in {cur[PassProc]}} IN CHOOSE r \in rs : TRUE

(* r is a failed record with a reason *)
FailedWithReason(r) == r # <<>> /\ r[1].status = "failed" /\ r[1].error \notin {NoneS, ""}

(* C22: when a collaborator of the pipeline (content retrieval, generation *)
(* including a timeout or a disabled or missing generator, publish) fails  *)
(* for a claimed item, the item's record ends failed with a non-empty      *)
(* error, and no exception leaves the coordinator.                         *)
C22_CollaboratorFailureMarksFailed ==
    [][(ItemDone /\ ~Killed /\ collab' # <<>>) =>
          /\ ~Raised
          /\ FailedWithReason(RecAfter)]_vars

(* C23: when an entry point finishes without being killed, by returning or *)
(* by raising, every item it claimed in that invocation is processed or    *)
(* failed: none is still in_progress.                                      *)
C23_NoClaimLeftInProgress ==
    [][(Finishes /\ ~Killed) => \A i \in claimedNow' : Terminal(StoredRec(i)')]_vars

(* an exception raised while an inbox candidate is processed is caught *)
ExceptionCaught ==
    (kind[PassProc] = "inbox" /\ step' \in {"PipelineRaises", "ClaimRaises", "MarkProcessedRaises"}) =>
        /\ pc'[PassProc] = "handler"
        /\ cur'[PassProc] = cur[PassProc]

(* the batch boundary attempts mark_failed, swallows its failure, and the  *)
(* loop goes to the next candidate or returns                              *)
HandlerGoesOn ==
    step' \in {"Handler", "Handler_fails"} =>
        /\ step' = "Handler" =>
              /\ FailedWithReason(RecAfter)
              /\ RecAfter[1].error = "Unhandled exception (see logs)"
        /\ step' = "Handler_fails" => file' = file
        /\ IF cur[PassProc] < NItems
           THEN pc'[PassProc] = "skip_check" /\ cur'[PassProc] = cur[PassProc] + 1
           ELSE pc'[PassProc] = "idle"

(* C24: an unexpected exception while process_one_from_inbox processes a   *)
(* candidate is caught, mark_failed is attempted for the item, a failure   *)
(* of that mark_failed is swallowed, and the invocation goes on with the   *)
(* remaining candidates: the exception never leaves process_one_from_inbox.*)
C24_BatchBoundary ==
    [][/\ ExceptionCaught
       /\ HandlerGoesOn
       /\ kind[PassProc] = "inbox" => ~Raised]_vars

(* the first candidate raised and its mark_failed failed too; the second   *)
(* was then processed in the same invocation                               *)
C24_Witness ==
    /\ step = "MarkProcessed"
    /\ claimedNow = {1, 2}
    /\ StoredRec(1) # <<>> /\ StoredRec(1)[1].status = "in_progress"
    /\ StoredRec(2) # <<>> /\ StoredRec(2)[1].status = "processed"

(* C25: when a claimed item has no usable content, the coordinator marks   *)
(* it failed with a descriptive reason and returns normally, without       *)
(* running generation, writing an output file, publishing, or marking the  *)
(* item processed.                                                         *)
C25_NoContentMarksFailed ==
    [][step' = "Retrieve_unusable" =>
          /\ FailedWithReason(RecAfter)
          /\ RecAfter[1].error = "No YouTube transcript available (skipping)"
          /\ outputs' = outputs /\ partial' = partial /\ published' = published
          /\ ItemDone /\ ~Raised
          /\ outfile'[PassProc] = NoneS /\ cstatus'[PassProc] = NoneS]_vars

(* an item of a process-url command ended failed for lack of content *)
C25_Witness ==
    /\ step = "Retrieve_unusable"
    /\ pc[PassProc] = "idle"
    /\ \E i \in claimedNow : FailedWithReason(StoredRec(i))

(* C28: one invocation of process_one_from_inbox claims and runs through   *)
(* the pipeline at most max(1, max_items_per_run) candidates.              *)
C28_AtMostMaxItemsClaimed ==
    Cardinality(claimedNow) <= IF max_items_per_run > 1 THEN max_items_per_run ELSE 1

-----------------------------------------------------------------------------
(* Claims about the ledger calls (SpecLedger).                             *)

LastId == lastOp.sha256
StepIs(name) == lastOp'.op = name /\ nops' = nops + 1

(* What the specification of allow_retry_in_progress says for a record.    *)
ExpectedAllowRetry(rec, ttl, t) ==
    IF rec = <<>> THEN TRUE
    ELSE CASE rec[1].status = "processed" -> FALSE
           [] rec[1].status = "failed" -> TRUE
           [] rec[1].status = "in_progress" -> (t - rec[1].started_at) > ttl
           [] OTHER -> FALSE

AllowRetryAsSpecified ==
    \A id \in LIds, ttl \in 0..MaxTtl :
        /\ Json_allow_retry_in_progress(jstore, id, ttl, lclock)
             = ExpectedAllowRetry(Json_get(jstore, id), ttl, lclock)
        /\ Sqlite_allow_retry_in_progress(sstore, id, ttl, lclock)
             = ExpectedAllowRetry(Sqlite_get(sstore, id), ttl, lclock)

AllowRetryStaysTrue ==
    \A id \in LIds, ttl \in 0..MaxTtl :
        ( /\ lastOp'.op = "tick"
          /\ Json_allow_retry_in_progress(jstore, id, ttl, lclock)
          /\ Sqlite_allow_retry_in_progress(sstore, id, ttl, lclock) )
        => /\ Json_allow_retry_in_progress(jstore', id, ttl, lclock')
           /\ Sqlite_allow_retry_in_progress(sstore', id, ttl, lclock')

\* C7: allow_retry_in_progress is true for no record, false for processed
\* (every ttl, 0 included), true for failed, and for in_progress true exactly
\* when now - started_at > ttl; once true for an untouched record it stays
\* true as the clock advances.
C7_AllowRetry == []AllowRetryAsSpecified /\ [][AllowRetryStaysTrue]_vars

\* an in_progress record two clock ticks old: not retryable at ttl = 2
\* (elapsed = ttl), retryable at ttl = 1 (elapsed > ttl)
C7_Witness ==
    \E id \in LIds :
        /\ id \in DOMAIN jstore.records
        /\ jstore.records[id].status = "in_progress"
        /\ lclock - jstore.records[id].started_at = 2
        /\ ~Json_allow_retry_in_progress(jstore, id, 2, lclock)
        /\ Sqlite_allow_retry_in_progress(sstore, id, 1, lclock)

\* C8: mark_in_progress(force=false) on an id that has a record is a no-op:
\* the record and the rest of the ledger are unchanged, in both backends.
C8_MarkInProgressNoForceNoOp ==
    [][ ( /\ StepIs("mark_in_progress")
          /\ ~lastOp'.frc
          /\ lastOp'.sha256 \in DOMAIN jstore.records )
        => (jstore' = jstore /\ sstore' = sstore) ]_vars

\* a non-forced mark_in_progress has just been made on a processed record
\* and on a failed one
C8_Witness ==
    /\ lastOp.op = "mark_in_progress"
    /\ ~lastOp.frc
    /\ LastId \in DOMAIN jstore.records
    /\ jstore.records[LastId].status = "processed"
    /\ sstore[LastId].status = "processed"
    /\ jstore.records[LastId].processed_at < lclock

ClaimWritten(rec, src, t) ==
    /\ rec.status = "in_progress"
    /\ rec.started_at = t
    /\ rec.error = NoneS
    /\ rec.source_path = src[1]
    /\ rec.source_mtime_ns = src[2]
    /\ rec.source_size = src[3]

\* C9: mark_in_progress with force, or on an id without a record, leaves
\* status in_progress, started_at = now, error cleared and the supplied source
\* path / mtime / size stored, whatever the record was before.
C9_MarkInProgressWrites ==
    [][ ( /\ StepIs("mark_in_progress")
          /\ (lastOp'.frc \/ lastOp'.sha256 \notin DOMAIN jstore.records) )
        => /\ lastOp'.sha256 \in DOMAIN jstore'.records
           /\ lastOp'.sha256 \in DOMAIN sstore'
           /\ ClaimWritten(jstore'.records[lastOp'.sha256], lastOp'.source, lclock')
           /\ ClaimWritten(sstore'[lastOp'.sha256], lastOp'.source, lclock') ]_vars

\* a forced mark_in_progress has re-entered in_progress from a record that
\* had been processed (its topic_file is still there) at a later time
C9_Witness ==
    /\ lastOp.op = "mark_in_progress"
    /\ lastOp.frc
    /\ jstore.records[LastId].status = "in_progress"
    /\ jstore.records[LastId].topic_file # NoneS
    /\ jstore.records[LastId].started_at > 0
    /\ sstore[LastId].status = "in_progress"

StoredMeta(recs, id) ==
    IF id \in DOMAIN recs
    THEN <<recs[id].archive_path, recs[id].topic_file, recs[id].codex_status>>
    ELSE <<NoneS, NoneS, NoneS>>

ProcessedWritten(rec, t) ==
    /\ rec.status = "processed"
    /\ rec.processed_at = t
    /\ rec.error = NoneS

\* C10 as stated: mark_processed leaves status processed, processed_at = now,
\* error cleared, and merges archive_path / topic_file / codex_status: a
\* supplied value replaces the stored one, a value not supplied leaves the
\* stored one in place.
C10_MarkProcessedMerges ==
    [][ StepIs("mark_processed")
        => LET id == lastOp'.sha256
               merged(old) == [k \in 1..3 |-> IF lastOp'.meta[k] # NoneS
                                              THEN lastOp'.meta[k] ELSE old[k]]
           IN  /\ ProcessedWritten(jstore'.records[id], lclock')
               /\ ProcessedWritten(sstore'[id], lclock')
               /\ StoredMeta(jstore'.records, id) = merged(StoredMeta(jstore.records, id))
               /\ StoredMeta(sstore', id) = merged(StoredMeta(sstore, id)) ]_vars

\* C10 amended: mark_processed leaves status processed, processed_at = now,
\* error cleared, and sets archive_path / topic_file / codex_status to its
\* arguments: a supplied value replaces the stored one and a value that is
\* not supplied clears the stored one.
C10_MarkProcessedOverwrites ==
    [][ StepIs("mark_processed")
        => LET id == lastOp'.sha256
           IN  /\ ProcessedWritten(jstore'.records[id], lclock')
               /\ ProcessedWritten(sstore'[id], lclock')
               /\ StoredMeta(jstore'.records, id) = lastOp'.meta
               /\ StoredMeta(sstore', id) = lastOp'.meta ]_vars

\* mark_processed without archive / topic / codex arguments has just been
\* made on a record that an earlier mark_processed had written with source
\* "q" (kept, since no source was supplied either)
C10_Witness ==
    /\ lastOp.op = "mark_processed"
    /\ lastOp.meta = <<NoneS, NoneS, NoneS>>
    /\ lastOp.source = <<NoneS, NoneN, NoneN>>
    /\ jstore.records[LastId].source_path = "q"
    /\ jstore.records[LastId].source_size = 2
    /\ jstore.records[LastId].archive_path = NoneS
    /\ sstore[LastId].topic_file = NoneS

(* the record of id, or the unset record when id has none *)
RecOrEmpty(recs, id) == IF id \in DOMAIN recs THEN recs[id] ELSE EmptyRec

(* what mark_failed is to leave alone in the records: the source and       *)
(* result fields of the record, and every other record                     *)
MarkFailedKeeps(old, new, id) ==
    /\ DOMAIN new = DOMAIN old \cup {id}
    /\ \A other \in DOMAIN old \ {id} : new[other] = old[other]
    /\ new[id].source_path = RecOrEmpty(old, id).source_path
    /\ new[id].source_mtime_ns = RecOrEmpty(old, id).source_mtime_ns
    /\ new[id].source_size = RecOrEmpty(old, id).source_size
    /\ new[id].archive_path = RecOrEmpty(old, id).archive_path
    /\ new[id].topic_file = RecOrEmpty(old, id).topic_file
    /\ new[id].codex_status = RecOrEmpty(old, id).codex_status

FailedWritten(rec, err, t) ==
    /\ rec.status = "failed"
    /\ rec.processed_at = t
    /\ rec.error = err

\* C11: mark_failed(id, error) leaves status failed, processed_at = now and
\* error = the message, and changes nothing else: the record's source and
\* result fields, every other record and the source-level snapshots (what
\* processed_source_snapshots returns) are unchanged, in both backends.
C11_MarkFailedFrame ==
    [][ StepIs("mark_failed")
        => LET id == lastOp'.sha256
           IN  /\ FailedWritten(jstore'.records[id], lastOp'.error, lclock')
               /\ FailedWritten(sstore'[id], lastOp'.error, lclock')
               /\ MarkFailedKeeps(jstore.records, jstore'.records, id)
               /\ MarkFailedKeeps(sstore, sstore', id)
               /\ Json_processed_source_snapshots(jstore') = Json_processed_source_snapshots(jstore)
               /\ Sqlite_processed_source_snapshots(sstore') = Sqlite_processed_source_snapshots(sstore) ]_vars

IsProcessedMatchesStatus ==
    \A id \in LIds :
        /\ Json_is_processed(jstore, id)
             = (id \in DOMAIN jstore.records /\ jstore.records[id].status = "processed")
        /\ Sqlite_is_processed(sstore, id)
             = (id \in DOMAIN sstore /\ sstore[id].status = "processed")
        /\ nops = 0 => (~Json_is_processed(jstore, id) /\ ~Sqlite_is_processed(sstore, id))

IsProcessedAfterCall ==
    LET id == lastOp'.sha256
        both == Json_is_processed(jstore', id) /\ Sqlite_is_processed(sstore', id)
        neither == ~Json_is_processed(jstore', id) /\ ~Sqlite_is_processed(sstore', id)
    IN  /\ StepIs("mark_processed") => both
        /\ StepIs("mark_failed") => neither
        /\ (StepIs("mark_in_progress") /\ (lastOp'.frc \/ id \notin DOMAIN jstore.records))
              => neither

\* C12: is_processed(id) is true exactly when id has a record whose status
\* is processed: false on a fresh ledger, false after a mark_in_progress
\* that writes (forced, or on an id without a record), true after
\* mark_processed, false after mark_failed; in both backends.
C12_IsProcessed == []IsProcessedMatchesStatus /\ [][IsProcessedAfterCall]_vars

\* mark_failed has just been made on a record that had been processed (its
\* archive_path is still there): is_processed has gone back to false
C12_Witness ==
    /\ lastOp.op = "mark_failed"
    /\ jstore.records[LastId].archive_path # NoneS
    /\ sstore[LastId].archive_path # NoneS
    /\ ~Json_is_processed(jstore, LastId)
    /\ ~Sqlite_is_processed(sstore, LastId)

(* the comparison is_source_processed is specified to make with a stored   *)
(* snapshot <<mtime, size>>                                                *)
SnapshotAnswer(snap, mtime, size) ==
    IF snap[1] = NoneN \/ snap[2] = NoneN \/ mtime = NoneN \/ size = NoneN
    THEN TRUE
    ELSE snap[1] = mtime /\ snap[2] = size

\* C13 as stated: is_source_processed is true whenever mtime or size is
\* missing in the request or in the stored snapshot (a path without a
\* snapshot has both missing), and otherwise true exactly when the
\* requested pair equals the stored one.
C13_IsSourceProcessedAsStated ==
    \A path \in LPaths, mtime \in LStats, size \in LStats :
        LET snaps == Json_processed_source_snapshots(jstore)
            snap == IF path \in DOMAIN snaps THEN snaps[path] ELSE <<NoneN, NoneN>>
        IN  Json_is_source_processed(jstore, path, mtime, size)
               = SnapshotAnswer(snap, mtime, size)

IsSourceProcessedAnswers ==
    \A path \in LPaths, mtime \in LStats, size \in LStats :
        /\ LET snaps == Json_processed_source_snapshots(jstore)
           IN  Json_is_source_processed(jstore, path, mtime, size)
                  = IF path \in DOMAIN snaps
                    THEN SnapshotAnswer(snaps[path], mtime, size)
                    ELSE FALSE
        /\ Sqlite_is_source_processed(sstore, path, mtime, size)
              = IF \E snaps \in Sqlite_processed_source_snapshots(sstore) : path \in DOMAIN snaps
                THEN {SnapshotAnswer(snaps[path], mtime, size)
                      : snaps \in Sqlite_processed_source_snapshots(sstore)}
                ELSE {FALSE}

IsSourceProcessedAfterMarkProcessed ==
    LET src == lastOp'.source
    IN  (StepIs("mark_processed") /\ src[1] # NoneS /\ src[2] # NoneN /\ src[3] # NoneN)
        => \A mtime \in LStats \ {NoneN}, size \in LStats \ {NoneN} :
              /\ Json_is_source_processed(jstore', src[1], mtime, size)
                    = (mtime = src[2] /\ size = src[3])
              /\ Sqlite_latest_processed(sstore', src[1]) = {lastOp'.sha256}
                    => Sqlite_is_source_processed(sstore', src[1], mtime, size)
                          = {mtime = src[2] /\ size = src[3]}

\* C13 amended: with no snapshot stored for the path is_source_processed is
\* false whatever the request; with one stored it is true when mtime or
\* size is missing on either side and otherwise true exactly when the pairs
\* are equal.  The stored snapshot is the JSON store's source_snapshots
\* entry, and in the SQLite store the source fields of the most recently
\* processed record of that path.  After mark_processed(id, path, mtime,
\* size) the same pair gives true and a different pair false (SQLite: when
\* no other processed record of the path has the same processed_at).
C13_IsSourceProcessed ==
    []IsSourceProcessedAnswers /\ [][IsSourceProcessedAfterMarkProcessed]_vars

\* mark_processed(id, "q", 2, 2) has just been made: (q, 2, 2) is processed,
\* (q, 2, 1) is not, (q, None, None) is, and nothing is known of "p"
C13_Witness ==
    /\ lastOp.op = "mark_processed"
    /\ lastOp.source = <<"q", 2, 2>>
    /\ Json_is_source_processed(jstore, "q", 2, 2)
    /\ ~Json_is_source_processed(jstore, "q", 2, 1)
    /\ Json_is_source_processed(jstore, "q", NoneN, NoneN)
    /\ ~Json_is_source_processed(jstore, "p", NoneN, NoneN)
    /\ Sqlite_is_source_processed(sstore, "q", 2, 2) = {TRUE}
    /\ Sqlite_is_source_processed(sstore, "q", 1, 2) = {FALSE}

\* C14: after every step of any sequence of mark_in_progress /
\* mark_processed / mark_failed calls made identically on a JSON and a
\* SQLite ledger, stats(), is_processed(id) and
\* allow_retry_in_progress(id, ttl) give the same results on both.
C14_BackendsAgree ==
    /\ Json_stats(jstore) = Sqlite_stats(sstore)
    /\ \A id \in LIds :
          /\ Json_is_processed(jstore, id) = Sqlite_is_processed(sstore, id)
          /\ \A ttl \in 0..MaxTtl :
                Json_allow_retry_in_progress(jstore, id, ttl, lclock)
                   = Sqlite_allow_retry_in_progress(sstore, id, ttl, lclock)

\* the stored records differ (JSON has cleared started_at, SQLite has kept
\* it) after a claim, a clock tick and a mark_failed, and one id is unknown
C14_Witness ==
    /\ lastOp.op = "mark_failed"
    /\ jstore.records[LastId].started_at = NoneN
    /\ sstore[LastId].started_at # NoneN
    /\ sstore[LastId].started_at < lclock
    /\ Json_stats(jstore)["failed"] = 1
    /\ \E id \in LIds : id \notin DOMAIN sstore

\* C15: after every step of any sequence of calls made identically on a
\* JSON and a SQLite ledger (source mtime and size supplied or not),
\* is_source_processed(path, mtime, size) and processed_source_snapshots()
\* give the same results on both.
C15_SnapshotsAgree ==
    /\ Sqlite_processed_source_snapshots(sstore) = {Json_processed_source_snapshots(jstore)}
    /\ \A path \in LPaths, mtime \in LStats, size \in LStats :
          Sqlite_is_source_processed(sstore, path, mtime, size)
             = {Json_is_source_processed(jstore, path, mtime, size)}

-----------------------------------------------------------------------------
(* Claims about the JSON ledger file (SpecFile).                           *)

InsideSave == fpc \in {"writing", "rename"}

SaveLeavesPathAlone == InsideSave => PathContent(fdisk) = fbefore

SaveStepIsAtomic ==
    InsideSave =>
        \/ PathContent(fdisk') = fbefore
        \/ /\ PathContent(fdisk') = <<Dumps(fmem)>>
           /\ IsJsonObject(Dumps(fmem))
           /\ Loads(Dumps(fmem)) = fmem

\* C16: at every point of a JSON mutation, a kill between any two of its
\* steps included, the file at the ledger path holds either the content it
\* had before the mutation or the complete document after it; a partly
\* written document is never there.
C16_SaveAtomic == []SaveLeavesPathAlone /\ [][SaveStepIsAtomic]_vars

\* the process was killed while write_text was half-way through the second
\* mutation: the temp file holds a partial text, the ledger path still the
\* complete document of the first
C16_Witness ==
    /\ fpc = "closed"
    /\ fsaves = 2
    /\ TmpPath \in DOMAIN fdisk
    /\ Len(fdisk[TmpPath]) >= 1
    /\ ~IsJsonObject(fdisk[TmpPath])
    /\ PathContent(fdisk) = fbefore
    /\ fbefore # <<>>
    /\ IsJsonObject(fbefore[1])
    /\ Loads(fbefore[1]).records # <<>>

(* the files beside the ledger path and its temp file *)
Backups(d) == (DOMAIN d) \ {StatePath, TmpPath}

OpenOfInvalidJson ==
    /\ fpc = "closed" /\ fpc' # "closed"
    /\ StatePath \in DOMAIN fdisk
    /\ Undecodable(fdisk[StatePath]) \/ IsInvalidJson(fdisk[StatePath])

OpenRecoversFromInvalidJson ==
    OpenOfInvalidJson =>
        /\ fpc' = "open"
        /\ fmem' = EmptyDoc
        /\ \E n \in Backups(fdisk') : fdisk'[n] = fdisk[StatePath]

CorruptContentKept ==
    fcorrupt # <<>> => \E n \in Backups(fdisk) : fdisk[n] = fcorrupt[1]

\* C17: opening the JSON ledger over a file that holds invalid JSON never
\* raises, gives an empty ledger, and leaves the corrupt content in a
\* renamed backup file, which later mutations of the new ledger do not
\* destroy.
C17_OpenCorrupt == []CorruptContentKept /\ [][OpenRecoversFromInvalidJson]_vars

-----------------------------------------------------------------------------
(* Claims about the stable-file tracker (SpecTracker).                     *)

(* this step is an observe call; Returned is the list it returned *)
ObserveStep == nobs' # nobs
Candidates == Range(lastObs'[1].candidates)
Returned == Range(lastObs'[1].stable)

(* the stored entry of p has the snapshot stat gives now, recorded at      *)
(* least stable_seconds ago                                                *)
SameAndQuiet(p) == seen[p][1] = stats[p] /\ mono - seen[p][2] >= stable_seconds

(* C18: an observe at time t reports a candidate it can stat exactly when  *)
(* the stored entry of the path has the same snapshot and t minus the time *)
(* that snapshot was recorded is at least the window W (so not at W - 1,   *)
(* and at W and after it); a path seen for the first time is reported in   *)
(* that poll only if W <= 0.                                               *)
C18_ReportedWhenQuiet ==
    [][ObserveStep =>
         \A p \in Candidates \cap DOMAIN stats :
            IF p \in DOMAIN seen
            THEN p \in Returned <=> SameAndQuiet(p)
            ELSE p \in Returned => stable_seconds <= 0]_vars

(* a path reported exactly when its window, a positive one, has elapsed *)
C18_Witness ==
    /\ lastObs # <<>>
    /\ stable_seconds > 0
    /\ \E p \in Range(lastObs[1].stable) : mono - seen[p][2] = stable_seconds

(* the observe finds a snapshot of p that differs from the stored one *)
FindsChanged(p) == p \in DOMAIN seen /\ seen[p][1] # stats[p]

SeenOf(sn, p) == IF p \in DOMAIN sn THEN <<sn[p]>> ELSE <<>>

(* candidate q was evaluated: its current snapshot is stored and it is     *)
(* reported as the rule for a path that can be statted says                *)
Evaluated(q) ==
    /\ q \in DOMAIN seen'
    /\ seen'[q][1] = stats[q]
    /\ q \in Returned <=> IF q \in DOMAIN seen THEN SameAndQuiet(q) ELSE stable_seconds <= 0

(* C20: an observe with a candidate whose file is missing does not report  *)
(* that path, raises nothing and leaves what is stored for the path as it  *)
(* was, and the other candidates of the call are still evaluated.          *)
C20_MissingFileSkipped ==
    [][ObserveStep =>
         \A p \in Candidates \ DOMAIN stats :
            /\ p \notin Returned
            /\ ~lastObs'[1].raised
            /\ SeenOf(seen', p) = SeenOf(seen, p)
            /\ \A q \in Candidates \cap DOMAIN stats : Evaluated(q)]_vars

(* a tracked path whose file is gone comes first in the list, and the path *)
(* after it is reported                                                    *)
C20_Witness ==
    /\ lastObs # <<>>
    /\ \E i, j \in DOMAIN lastObs[1].candidates :
          /\ i < j
          /\ lastObs[1].candidates[i] \in DOMAIN seen \ DOMAIN stats
          /\ lastObs[1].candidates[j] \in Range(lastObs[1].stable)

(* p was given to forget, or left out of an observe, and no observe has    *)
(* statted it since                                                        *)
Forgotten(p) == p \in DOMAIN fresh /\ fresh[p] = NoneN

NoStateForForgotten == \A p \in TPaths : Forgotten(p) => p \notin DOMAIN seen

NewlySeenAfterForget ==
    ObserveStep =>
        \A p \in Candidates \cap DOMAIN stats :
            /\ Forgotten(p) =>
                  /\ seen'[p] = <<stats[p], mono>>
                  /\ p \in Returned => stable_seconds <= 0
            /\ (p \in DOMAIN fresh /\ fresh[p] # NoneN /\ p \in Returned) =>
                  mono >= fresh[p] + stable_seconds

(* C21: after forget(path), or after an observe whose candidates do not    *)
(* contain the path, the tracker holds nothing for the path; the next      *)
(* observe that stats it records it as newly seen (reporting it only if    *)
(* W <= 0), and it is reported afterwards only once W has elapsed from     *)
(* that observation.                                                       *)
C21_ForgetRestartsWindow == []NoStateForForgotten /\ [][NewlySeenAfterForget]_vars

(* a path that was dropped or forgotten, seen again, and reported a full   *)
(* positive window later                                                   *)
C21_Witness ==
    /\ lastObs # <<>>
    /\ stable_seconds > 0
    /\ \E p \in Range(lastObs[1].stable) \cap DOMAIN fresh :
          fresh[p] # NoneN /\ mono = fresh[p] + stable_seconds

-----------------------------------------------------------------------------
(* Claims about the Inbox pass and the bookmarks source (SpecInbox)        *)

(* the bookmark declares a creation time *)
HasTime(b) == b.date_added # NoneN

(* b1 comes before b2 in ascending (creation time, URL), the bookmarks     *)
(* without a creation time first                                           *)
ComesBefore(b1, b2) ==
    \/ ~HasTime(b1) /\ HasTime(b2)
    \/ HasTime(b1) /\ HasTime(b2) /\ b1.date_added < b2.date_added
    \/ /\ HasTime(b1) = HasTime(b2)
       /\ b1.date_added = b2.date_added
       /\ UrlRank(b1.url) < UrlRank(b2.url)

(* C27: process_one_from_inbox handles the candidates in ascending order   *)
(* of (creation time, URL), those without a creation time first, and it    *)
(* claims a candidate only after every candidate that precedes it in that  *)
(* order has been skipped or has ended failed in the same invocation.      *)
C27_InboxOrder ==
    /\ \A i, j \in DOMAIN order : i < j => ~ComesBefore(order[j], order[i])
    /\ \A k \in DOMAIN trail :
          trail[k] # "skipped" =>
              \A j \in DOMAIN order :
                  ComesBefore(order[j], order[k]) =>
                      j < k /\ trail[j] \in {"skipped", "failed"}

(* the sources the pass cannot load: missing, unreadable, not valid JSON *)
Unavailable == {"missing", "unreadable", "undecodable", "invalid_json"}

(* C30: a pass (a watcher tick or process_one_from_inbox) that finds the   *)
(* bookmarks source missing, unreadable or not valid JSON ends normally:   *)
(* no exception leaves it, the watch loop keeps running and polls again,   *)
(* and the ledger is as it was when the pass began.                        *)
C30_SourceUnavailableEndsNormally ==
    loadKind \in Unavailable =>
        /\ ipc = "idle"
        /\ ~iraised
        /\ wloop = "running"
        /\ istate = istate0

-----------------------------------------------------------------------------
(* Claims about URLs and identities (SpecUrl) *)

(* C31: normalize_url is idempotent: normalizing an already normalized     *)
(* URL gives the same string, for every input                              *)
C31_NormalizeIdempotent == unorm2 # <<>> => unorm2 = unorm

(* the four things the identity is said to depend on, for an item and the  *)
(* normalized URL it was hashed with                                       *)
IdentityKey(pair) == <<pair[2], pair[1].date_added_raw, pair[1].guid, pair[1].id>>

(* C32: the identity of an item is a function of exactly its normalized    *)
(* URL, raw date-added token, GUID and source-native id: two items agree   *)
(* in all four exactly when their identities are equal, whatever their     *)
(* titles (and raw URLs) are; the normalized URL is that of the item's URL *)
C32_IdentityFunction ==
    itemA # <<>> =>
        /\ (idA = idB) <=> (IdentityKey(itemA) = IdentityKey(itemB))
        /\ itemA[2] = normalize_url(uurl)
        /\ itemB[2] = normalize_url(itemB[1].url)

(* two bookmarks with different titles and differently written URLs of one *)
(* page have one identity                                                  *)
C32_Witness ==
    /\ itemA # <<>>
    /\ itemA[1].title # itemB[1].title
    /\ itemA[1].url # itemB[1].url
    /\ itemA[1].guid # NoneS
    /\ idA = idB

(* the URL, all of whose forms are scheme://host..., is followed at        *)
(* position i by nothing, a query or a fragment                            *)
EndsOrGoesOn(u, i, marks) == Len(u) < i \/ u[i] \in marks

(* youtu.be/abc123 *)
ShortLinkRef(u) == Len(u) >= 7 /\ SubSeq(u, 5, 7) = <<"youtu.be", "/", "abc123">> /\ EndsOrGoesOn(u, 8, {"?", "#"})

(* the positions of the parameters named v *)
VPositions(u) == {i \in 2..Len(u) : u[i] = "v" /\ u[i - 1] \in {"?", "&"}}

(* youtube.com/watch?...v=abc123...: one parameter v, with any others *)
WatchRef(u) ==
    /\ Len(u) >= 8
    /\ u[5] \in {"youtube.com", "www.youtube.com"}
    /\ SubSeq(u, 6, 8) = <<"/", "watch", "?">>
    /\ Cardinality(VPositions(u)) = 1
    /\ \A i \in VPositions(u) : Len(u) >= i + 2 /\ SubSeq(u, i + 1, i + 2) = <<"=", "abc123">> /\ EndsOrGoesOn(u, i + 3, {"&", "#"})

(* youtube.com/shorts/abc123 *)
ShortsRef(u) == Len(u) >= 9 /\ u[5] \in {"youtube.com", "www.youtube.com"} /\ SubSeq(u, 6, 9) = <<"/", "shorts", "/", "abc123">> /\ EndsOrGoesOn(u, 10, {"?", "#"})

(* C33: every reference to one video (youtu.be/<id>, /watch?v=<id> with    *)
(* any additional parameters, /shorts/<id>) normalizes to                  *)
(* https://www.youtube.com/watch?v=<id>                                    *)
C33_YoutubeCanonical ==
    (unorm # <<>> /\ (ShortLinkRef(uurl) \/ WatchRef(uurl) \/ ShortsRef(uurl))) =>
        unorm[1] = <<"https", ":", "/", "/", "www.youtube.com", "/", "watch", "?", "v", "=", "abc123">>

(* a short link with a time parameter has been normalized *)
C33_Witness ==
    /\ unorm # <<>>
    /\ uurl = <<"https", ":", "/", "/", "youtu.be", "/", "abc123", "?", "t", "=", "10s">>
    /\ unorm[1] = <<"https", ":", "/", "/", "www.youtube.com", "/", "watch", "?", "v", "=", "abc123">>

-----------------------------------------------------------------------------
(* Claims about the records of one open store (SpecLedger) *)

LedgerStatuses == {"in_progress", "processed", "failed"}

(* C38: within one open store every record's status is one of in_progress, *)
(* processed, failed, and no call removes a record: the set of recorded    *)
(* ids only grows (both backends)                                          *)
C38_RecordsKept ==
    [][/\ \A id \in DOMAIN jstore'.records : jstore'.records[id].status \in LedgerStatuses
       /\ \A id \in DOMAIN sstore' : sstore'[id].status \in LedgerStatuses
       /\ DOMAIN jstore.records \subseteq DOMAIN jstore'.records
       /\ DOMAIN sstore \subseteq DOMAIN sstore']_vars

(* every id is recorded and the last call marked a processed record failed *)
C38_Witness ==
    /\ lastOp.op = "mark_failed"
    /\ DOMAIN jstore.records = LIds
    /\ DOMAIN sstore = LIds
    /\ \E id \in LIds : jstore.records[id].status = "failed" /\ jstore.records[id].topic_file # NoneS

-----------------------------------------------------------------------------
(* Claims about the order of the ledger writes of one invocation (SpecPass) *)

ExternalSteps == {"Retrieve", "Retrieve_unusable", "Generate", "Generate_unavailable", "WriteOutput", "ReplaceOutput", "Publish", "Publish_failed", "PipelineRaises"}

OutcomeWrites == {"Retrieve_unusable", "MarkProcessed", "Handler"}

(* C34: the in_progress claim of an item is written before any external    *)
(* pipeline step for it, and every write of processed or failed that an    *)
(* invocation makes for an item, the mark_failed of the batch boundary     *)
(* included, comes after that invocation's own in_progress claim of it     *)
C34_ClaimBeforeOutcome == [][step' \in ExternalSteps \cup OutcomeWrites => cur[PassProc] \in claimedNow]_vars

-----------------------------------------------------------------------------
(* Claims about the watch loop (SpecWatch) *)

(* a step of run_once in which observe is called *)
WatchObserves == (ipc = "observe" /\ ipc' # "observe") \/ (ipc = "wait" /\ mono' = mono + 1)

(* the bookmarks file is there with the snapshot the tracker has stored *)
SameSnapshot == bookmarks_file \in DOMAIN SrcStats /\ bookmarks_file \in DOMAIN seen /\ SrcStats[bookmarks_file] = seen[bookmarks_file][1]

(* C39: once the tracker has reported the path stable, every later observe *)
(* that finds it with the same snapshot reports it again and leaves its    *)
(* entry as it is (a report does not restart the timer, the watcher never  *)
(* calls forget), so every tick over an unchanged stable source goes on to *)
(* open the ledger and invoke the coordinator                              *)
C39_ReportedAgain == [][(WatchObserves /\ bookmarks_file \in DOMAIN reported /\ SameSnapshot) => (ipc' = "load" /\ icaller' = "watcher" /\ seen' = seen)]_vars

(* the path has been reported a second time, later than the first time it  *)
(* could be                                                                *)
C39_Witness ==
    /\ ipc = "load"
    /\ bookmarks_file \in DOMAIN reported
    /\ reported[bookmarks_file] = MaxReports
    /\ mono > seen[bookmarks_file][2] + stable_seconds

(* what the tracker returns to the observe call of a step of run_once *)
ReportedNow == Observe(seen, <<bookmarks_file>>, mono', stable_seconds, SrcStats).stable

(* C36: in a watcher tick the ledger is opened and the coordinator invoked *)
(* only if the bookmarks file exists and the tracker reported it stable in *)
(* that tick; in every other case the tick reads nothing of the bookmarks  *)
(* content and does not touch the ledger                                   *)
C36_GatedByStableReport ==
    [][/\ (ipc # "load" /\ ipc' = "load") => (WatchObserves /\ icaller = "watcher" /\ bsrc.kind # "missing" /\ ReportedNow = <<bookmarks_file>>)
       /\ ipc \notin {"load", "loop"} => (istate' = istate /\ order' \in {order, <<>>} /\ loadKind' \in {loadKind, NoneS, "missing"})]_vars

(* the wait loop has just seen the file become stable: the tick goes on to *)
(* the coordinator                                                         *)
C36_Witness ==
    /\ ipc = "load"
    /\ icaller = "watcher"
    /\ stable_seconds > 0
    /\ mono = deadline
    /\ bookmarks_file \in DOMAIN reported
    /\ reported[bookmarks_file] = 1

(* C37: once stop is requested the watch loop terminates: a wait in        *)
(* progress exits at its next check, without another observe and without   *)
(* invoking the coordinator for the file that is not yet stable, and       *)
(* run_forever starts no further tick                                      *)
C37_StopTerminates ==
    /\ wstop ~> (wloop # "running")
    /\ [][wstop => /\ (ipc = "idle" => ipc' = "idle")
                   /\ (ipc = "wait" /\ bsrc' = bsrc) => (ipc' = "idle" /\ mono' = mono /\ seen' = seen /\ istate' = istate)]_vars

(* the loop has stopped during the wait for a file that was not yet stable *)
C37_Witness ==
    /\ wstop
    /\ wloop = "stopped"
    /\ istate = <<>>
    /\ bookmarks_file \in DOMAIN seen
    /\ bookmarks_file \notin DOMAIN reported
    /\ mono - seen[bookmarks_file][2] < stable_seconds

-----------------------------------------------------------------------------
(* Claims about the passes of the watch loop (SpecLive, FairSpecLive) *)

(* the ledger file holds a terminal record for bookmark i *)
LiveDone(i) == i \in DOMAIN file.records /\ file.records[i].status \in {"processed", "failed"}

(* the ledger file holds a claim on bookmark i whose lease has not expired *)
LeaseHeld(i) ==
    /\ i \in DOMAIN file.records
    /\ file.records[i].status = "in_progress"
    /\ file.records[i].started_at # NoneN
    /\ now - file.records[i].started_at <= in_progress_ttl_seconds

(* the step is mark_in_progress called for bookmark i by a pass without force *)
ClaimsItem(i) ==
    \E p \in Procs : pc[p] = "claim" /\ ~force[p] /\ cur[p] = i /\ pc'[p] \in {"retrieve", "handler"}

(* a claim is never made over a lease that has not expired *)
LeaseRespected == [][\A i \in Items : ClaimsItem(i) => ~LeaseHeld(i)]_vars

(* C35: under repeated watcher ticks over a stable source, with no crash    *)
(* after the last one, every bookmark of the Inbox eventually has status   *)
(* processed or failed in the ledger; a claim left in_progress is not      *)
(* claimed while now - started_at <= ttl and is claimed again once the     *)
(* lease has expired; no bookmark waits for ever behind the ones before it *)
C35_EveryCandidateFinishes ==
    /\ \A i \in Items : <>LiveDone(i)
    /\ LeaseRespected

(* C35, amended: the same for every bookmark whose URL is http(s); a        *)
(* bookmark with another kind of URL never gets a record                   *)
C35_HttpCandidatesFinish ==
    /\ \A i \in Items : http[i] => <>[]LiveDone(i)
    /\ [](\A i \in Items : ~http[i] => i \notin DOMAIN file.records)
    /\ LeaseRespected

(* Bookmark 1 was claimed and its output written before the watcher was    *)
(* killed; bookmark 2 was finished while that lease was held; bookmark 1   *)
(* was claimed again after the lease expired and processed with a second   *)
(* output file.                                                            *)
C35_Witness ==
    /\ http = [i \in Items |-> TRUE]
    /\ {ToString(<<1, 1>>), ToString(<<1, 2>>)} \subseteq outputs
    /\ LiveDone(2) /\ file.records[2].processed_at = 0
    /\ LiveDone(1) /\ file.records[1].status = "processed"
    /\ file.records[1].topic_file = ToString(<<1, 2>>)
    /\ file.records[1].processed_at = MaxNow

-----------------------------------------------------------------------------
(* Claims about two JSON stores on one ledger path (SpecSave) *)

(* C40: with the JSON backend, two invocations that mutate the ledger at    *)
(* the same time do not disturb each other's save: in every interleaving   *)
(* of their temp-file writes and renames no mutation raises, and the       *)
(* ledger file always holds one writer's complete document                 *)
C40_SavesUndisturbed ==
    /\ \A w \in Procs : spc[w] # "raised"
    /\ LedgerText # <<>> => LedgerText[1] \in swrote

====
